---- MODULE Spec2Model ----
(***************************************************************************)
(* jsave: lock wrappers (Jsave, Mutex, ReentrantMutex, RwLock) over        *)
(* parking_lot whose                                                       *)
(* protected value is persisted as JSON to a backing file.                 *)
(*                                                                         *)
(* The protected value is the document {"counter": n}; `data` holds n.     *)
(* The backing file holds a sequence of JSON tokens.  One wrapper exists   *)
(* at a time at the single location L; the file outlives the wrapper.      *)
(***************************************************************************)
EXTENDS Integers, Sequences, FiniteSets, TLC

\* ------------------------------------------------------------------ bounds
NThreads == 2
MaxCounter == 0
MaxGuards == 2
\* the longest timeout a bounded acquire is called with, in clock ticks
MaxTimeout == 2

Threads == 1..NThreads
\* the values the protected counter takes (42 is the documented scenario)
Values == (0..MaxCounter) \cup {42}

\* ------------------------------------------------------- JSON encode/decode
DigitChar == <<"0", "1", "2", "3", "4", "5", "6", "7", "8", "9">>

IsDigit(c) == \E d \in 1..10 : DigitChar[d] = c

DigitVal(c) == (CHOOSE d \in 1..10 : DigitChar[d] = c) - 1

IsWs(c) == c \in {" ", "\n"}

RECURSIVE Digits(_)
Digits(n) == IF n < 10 THEN <<DigitChar[n + 1]>>
             ELSE Digits(n \div 10) \o <<DigitChar[(n % 10) + 1]>>

\* serde_json::to_writer: {"counter":n}
to_writer(n) == <<"{", "counter", ":">> \o Digits(n) \o <<"}">>

\* serde_json::to_writer_pretty: {\n  "counter": n\n}
to_writer_pretty(n) ==
    <<"{", "\n", " ", " ", "counter", ":", " ">> \o Digits(n) \o <<"\n", "}">>

RECURSIVE SkipWs(_, _)
SkipWs(s, i) == IF i <= Len(s) /\ IsWs(s[i]) THEN SkipWs(s, i + 1) ELSE i

RECURSIVE DigitsEnd(_, _)
DigitsEnd(s, i) == IF i <= Len(s) /\ IsDigit(s[i]) THEN DigitsEnd(s, i + 1) ELSE i

RECURSIVE NumVal(_, _, _)
NumVal(s, i, j) == IF j <= i THEN 0
                   ELSE NumVal(s, i, j - 1) * 10 + DigitVal(s[j - 1])

DecodeErr == [ok |-> FALSE, val |-> 0]

\* serde_json::from_reader for the type {counter: u64}: whitespace is skipped
\* between tokens, a number has no leading zero, nothing but whitespace may
\* follow the closing brace.
from_reader(s) ==
    LET i1 == SkipWs(s, 1) IN
    IF ~(i1 <= Len(s) /\ s[i1] = "{") THEN DecodeErr ELSE
    LET i2 == SkipWs(s, i1 + 1) IN
    IF ~(i2 <= Len(s) /\ s[i2] = "counter") THEN DecodeErr ELSE
    LET i3 == SkipWs(s, i2 + 1) IN
    IF ~(i3 <= Len(s) /\ s[i3] = ":") THEN DecodeErr ELSE
    LET i4 == SkipWs(s, i3 + 1)
        i5 == DigitsEnd(s, i4) IN
    IF i5 = i4 \/ (i5 > i4 + 1 /\ s[i4] = "0") THEN DecodeErr ELSE
    LET i6 == SkipWs(s, i5) IN
    IF ~(i6 <= Len(s) /\ s[i6] = "}") THEN DecodeErr ELSE
    IF SkipWs(s, i6 + 1) <= Len(s) THEN DecodeErr
    ELSE [ok |-> TRUE, val |-> NumVal(s, i4, i5)]

\* -------------------------------------------------------------- the state
GuardKinds == {"JsaveReadGuard", "JsaveWriteGuard",
               "MutexGuard", "MappedMutexGuard",
               "RwLockReadGuard", "RwLockWriteGuard", "RwLockUpgradableReadGuard",
               "MappedRwLockReadGuard", "MappedRwLockWriteGuard",
               "ReentrantMutexGuard", "MappedReentrantMutexGuard"}

\* guards through which deref_mut reaches the protected value
WriteCapable == {"JsaveWriteGuard", "MutexGuard", "MappedMutexGuard",
                 "RwLockWriteGuard", "MappedRwLockWriteGuard"}

\* guards whose inner parking_lot guard holds the lock exclusively / in
\* upgradable mode; every other guard holds it shared
ExclusiveGuards == WriteCapable
UpgradableGuards == {"RwLockUpgradableReadGuard"}
\* guards that hold one level of a reentrant lock
ReentrantGuards == {"ReentrantMutexGuard", "MappedReentrantMutexGuard"}

VARIABLES
    kind,     \* which wrapper lives at L: "None", "Jsave", "Mutex",
              \* "ReentrantMutex", "RwLock"
    data,     \* the protected in-memory value (the counter)
    file,     \* the backing location: [exists, content]
    pretty,   \* the build-wide pretty/compact switch of save_data_to_path
    lock,     \* parking_lot's raw lock: [excl, shared, upgr], and for the
              \* reentrant mutex its [owner, count] (owner 0: nobody)
    guards,   \* guards[t][g]: how many live guards of kind g thread t owns
    pc,       \* per thread: "idle", or the call it is inside while holding a lock
    last,     \* the last completed call: [op, g, t, io, res, wrote]
    seed,     \* {v} for the latest successful init_with(v), while the file has
              \* been written by nothing but init since; else NoSeed
    timer     \* per thread, while it waits in a bounded acquire: the timeout
              \* d it was called with and the ticks e elapsed since the call

vars == <<kind, data, file, pretty, lock, guards, pc, last, seed, timer>>

NoTimer == [d |-> 0, e |-> 0]

NoSeed == {}
NoFile == [exists |-> FALSE, content |-> <<>>]
Unlocked == [excl |-> FALSE, shared |-> 0, upgr |-> FALSE, owner |-> 0, count |-> 0]
NoGuards == [g \in GuardKinds |-> 0]

NumGuards(t) ==
    LET c == guards[t] IN
    c["JsaveReadGuard"] + c["JsaveWriteGuard"] + c["MutexGuard"]
    + c["MappedMutexGuard"] + c["RwLockReadGuard"] + c["RwLockWriteGuard"]
    + c["RwLockUpgradableReadGuard"] + c["MappedRwLockReadGuard"]
    + c["MappedRwLockWriteGuard"] + c["ReentrantMutexGuard"]
    + c["MappedReentrantMutexGuard"]

RECURSIVE GuardsUpTo(_)
GuardsUpTo(n) == IF n = 0 THEN 0 ELSE NumGuards(n) + GuardsUpTo(n - 1)

\* g is the receiver: the wrapper type of a constructor, the guard kind of a
\* guard method, "" otherwise
Note(op, g, t, io, res, wrote) ==
    last' = [op |-> op, g |-> g, t |-> t, io |-> io, res |-> res, wrote |-> wrote]

\* ------------------------------------------------------------ file system
\* outcomes the environment injects into one call's file operations
WriteIo == {"ok", "open_fail", "write_fail"}
InitIo == {"ok", "ropen_fail", "read_fail", "open_fail", "write_fail"}

\* what a failed write may leave behind: a proper prefix of the bytes (the
\* shortest and the longest stand for all of them)
Prefixes(bytes) == {SubSeq(bytes, 1, k) : k \in {0, Len(bytes) - 1}}

\* OpenOptions::new().read(true).open(path)
open_read(fs, io) == fs.exists /\ io # "ropen_fail"

\* OpenOptions::new().write(true).truncate(true)[.create(create)].open(path):
\* fails when the environment refuses, or when the file is missing and is not
\* to be created; on success the file exists and is empty.
open_truncate(fs, io, create) ==
    IF io = "open_fail" \/ (~fs.exists /\ ~create)
    THEN [ok |-> FALSE, fs |-> fs]
    ELSE [ok |-> TRUE, fs |-> [exists |-> TRUE, content |-> <<>>]]

\* the serializer writing `bytes` into the freshly truncated file; a failure
\* leaves the proper prefix `cut` of them behind
write_bytes(bytes, io, cut) ==
    IF io = "write_fail"
    THEN [ok |-> FALSE, fs |-> [exists |-> TRUE, content |-> cut]]
    ELSE [ok |-> TRUE, fs |-> [exists |-> TRUE, content |-> bytes]]

\* the inline persist of lib.rs: open for truncate-write WITHOUT create, then
\* serde_json::to_writer (compact)
JsavePersist(v, fs, io, cut) ==
    LET o == open_truncate(fs, io, FALSE) IN
    IF ~o.ok THEN [res |-> "Io", fs |-> fs, wrote |-> FALSE] ELSE
    LET w == write_bytes(to_writer(v), io, cut) IN
    [res |-> IF w.ok THEN "Ok" ELSE "Serde", fs |-> w.fs, wrote |-> TRUE]

Encode(v, p) == IF p THEN to_writer_pretty(v) ELSE to_writer(v)

\* crate::save_data_to_path: creates or truncates the destination and writes
\* the encoding selected by the build-wide switch
save_data_to_path(v, fs, io, cut, p) ==
    LET o == open_truncate(fs, io, TRUE) IN
    IF ~o.ok THEN [res |-> "Io", fs |-> fs, wrote |-> FALSE] ELSE
    LET w == write_bytes(Encode(v, p), io, cut) IN
    [res |-> IF w.ok THEN "Ok" ELSE "Serde", fs |-> w.fs, wrote |-> TRUE]

\* the read half of every init: open for read, then decode
ReadDecode(fs, io) ==
    IF ~open_read(fs, io) THEN [res |-> "Io", val |-> 0] ELSE
    LET d == from_reader(fs.content) IN
    IF io = "read_fail" \/ ~d.ok THEN [res |-> "Serde", val |-> 0]
    ELSE [res |-> "Ok", val |-> d.val]

\* ------------------------------------------------------------ construction
\* the common end of every init / init_with: the wrapper exists only on Ok
Construct(k, op, io, r, v) ==
    /\ file' = r.fs
    /\ Note(op, k, 0, io, r.res, r.wrote)
    /\ IF r.res = "Ok"
       THEN kind' = k /\ data' = v
       ELSE kind' = "None" /\ data' = 0
    /\ lock' = Unlocked
    /\ UNCHANGED <<timer, pretty, guards, pc>>

\* mutant: a decode failure falls back to a default value (unwrap_or_default)
Jsave_init_default_on_error ==
    /\ kind = "None"
    /\ \E io \in InitIo :
         LET rd == ReadDecode(file, io) IN
         IF rd.res = "Io"
         THEN /\ Construct("Jsave", "init", io,
                           [res |-> rd.res, fs |-> file, wrote |-> FALSE], 0)
              /\ seed' = seed
         ELSE \E cut \in Prefixes(to_writer(rd.val)) :
              /\ Construct("Jsave", "init", io,
                           JsavePersist(rd.val, file, io, cut), rd.val)
              /\ seed' = seed

\* mutant: init re-encodes a fresh default instead of the decoded value
Jsave_init_rewrites_default ==
    /\ kind = "None"
    /\ \E io \in InitIo :
         LET rd == ReadDecode(file, io) IN
         IF rd.res # "Ok"
         THEN /\ Construct("Jsave", "init", io,
                           [res |-> rd.res, fs |-> file, wrote |-> FALSE], 0)
              /\ seed' = seed
         ELSE \E cut \in Prefixes(to_writer(0)) :
              /\ Construct("Jsave", "init", io,
                           JsavePersist(0, file, io, cut), rd.val)
              /\ seed' = seed

\* mutant: the file is opened for truncating write before it is read
Jsave_init_truncates_first ==
    /\ kind = "None"
    /\ \E io \in InitIo :
         LET rd == ReadDecode(file, io)
             o == open_truncate(file, io, FALSE) IN
         IF rd.res # "Ok"
         THEN /\ Construct("Jsave", "init", io,
                           [res |-> rd.res, fs |-> o.fs, wrote |-> FALSE], 0)
              /\ seed' = seed
         ELSE \E cut \in Prefixes(to_writer(rd.val)) :
              /\ Construct("Jsave", "init", io,
                           JsavePersist(rd.val, file, io, cut), rd.val)
              /\ seed' = seed

Jsave_init ==
    /\ kind = "None"
    /\ \E io \in InitIo :
         LET rd == ReadDecode(file, io) IN
         IF rd.res # "Ok"
         THEN /\ Construct("Jsave", "init", io,
                           [res |-> rd.res, fs |-> file, wrote |-> FALSE], 0)
              /\ seed' = seed
         ELSE \E cut \in Prefixes(to_writer(rd.val)) :
              /\ Construct("Jsave", "init", io,
                           JsavePersist(rd.val, file, io, cut), rd.val)
              /\ seed' = seed

Jsave_init_with ==
    /\ kind = "None"
    /\ \E v \in Values, io \in WriteIo : \E cut \in Prefixes(to_writer(v)) :
         LET r == JsavePersist(v, file, io, cut) IN
         /\ Construct("Jsave", "init_with", io, r, v)
         /\ seed' = IF r.res = "Ok" THEN {v} ELSE NoSeed

\* Mutex::init, ReentrantMutex::init, RwLock::init (identical bodies)
LockInit(k) ==
    /\ kind = "None"
    /\ \E io \in InitIo :
         LET rd == ReadDecode(file, io) IN
         IF rd.res # "Ok"
         THEN /\ Construct(k, "init", io,
                           [res |-> rd.res, fs |-> file, wrote |-> FALSE], 0)
              /\ seed' = seed
         ELSE \E cut \in Prefixes(Encode(rd.val, pretty)) :
              /\ Construct(k, "init", io,
                           save_data_to_path(rd.val, file, io, cut, pretty), rd.val)
              /\ seed' = seed

\* Mutex::init_with, ReentrantMutex::init_with, RwLock::init_with (identical
\* bodies)
LockInitWith(k) ==
    /\ kind = "None"
    /\ \E v \in Values, io \in WriteIo : \E cut \in Prefixes(Encode(v, pretty)) :
         LET r == save_data_to_path(v, file, io, cut, pretty) IN
         /\ Construct(k, "init_with", io, r, v)
         /\ seed' = IF r.res = "Ok" THEN {v} ELSE NoSeed

Mutex_init == LockInit("Mutex")
Mutex_init_with == LockInitWith("Mutex")
RwLock_init == LockInit("RwLock")
RwLock_init_with == LockInitWith("RwLock")
ReentrantMutex_init == LockInit("ReentrantMutex")
ReentrantMutex_init_with == LockInitWith("ReentrantMutex")

Quiescent == /\ \A t \in Threads : pc[t] = "idle" /\ guards[t] = NoGuards

\* the wrapper goes out of scope (no guard can outlive it); the file stays
Wrapper_drop ==
    /\ kind # "None"
    /\ Quiescent
    /\ kind' = "None" /\ data' = 0
    /\ Note("drop_wrapper", kind, 0, "ok", "unit", FALSE)
    /\ UNCHANGED <<timer, file, pretty, lock, guards, pc, seed>>

\* ----------------------------------------------- parking_lot's raw locks
\* RawMutex / RawRwLock: when each acquisition is granted
can_lock_exclusive(l) == ~l.excl /\ l.shared = 0 /\ ~l.upgr
can_lock_shared(l) == ~l.excl
can_lock_upgradable(l) == ~l.excl /\ ~l.upgr
\* an upgradable holder becomes the writer once the ordinary readers are gone
can_upgrade(l) == l.upgr /\ ~l.excl /\ l.shared = 0

lock_exclusive(l) == [l EXCEPT !.excl = TRUE]
unlock_exclusive(l) == [l EXCEPT !.excl = FALSE]
lock_shared(l) == [l EXCEPT !.shared = @ + 1]
unlock_shared(l) == [l EXCEPT !.shared = IF @ > 0 THEN @ - 1 ELSE 0]
lock_upgradable(l) == [l EXCEPT !.upgr = TRUE]
unlock_upgradable(l) == [l EXCEPT !.upgr = FALSE]

\* RawReentrantMutex: the owner re-enters, anyone else needs the inner mutex
can_lock_reentrant(l, t) == ~l.excl \/ l.owner = t
lock_reentrant(l, t) == [l EXCEPT !.excl = TRUE, !.owner = t, !.count = @ + 1]
unlock_reentrant(l) ==
    IF l.count > 1 THEN [l EXCEPT !.count = @ - 1]
    ELSE [l EXCEPT !.excl = FALSE, !.owner = 0, !.count = 0]

\* how a guard of each kind was granted, and what dropping it gives back
unlock_for(g, l) ==
    IF g \in ExclusiveGuards THEN unlock_exclusive(l)
    ELSE IF g \in ReentrantGuards THEN unlock_reentrant(l)
    ELSE IF g \in UpgradableGuards THEN unlock_upgradable(l)
    ELSE unlock_shared(l)

\* is_locked(): the raw lock is held in some mode
is_locked == lock.excl \/ lock.shared > 0 \/ lock.upgr

Ready(t, k) == kind = k /\ pc[t] = "idle"
\* the model's cap on live guards (read guards are otherwise unbounded)
LiveGuards == GuardsUpTo(NThreads)
Room(t) == LiveGuards < MaxGuards
Owns(t, g) == pc[t] = "idle" /\ guards[t][g] > 0

\* a guard is handed out
Acquire(t, g, l2, op, res) ==
    /\ guards' = [guards EXCEPT ![t][g] = @ + 1]
    /\ lock' = l2
    /\ Note(op, "", t, "ok", res, FALSE)
    /\ UNCHANGED <<timer, kind, data, file, pretty, pc, seed>>

\* a try_* call comes back empty: nothing but the call's record changes
Empty(t, g, op, res) ==
    /\ Note(op, g, t, "ok", res, FALSE)
    /\ UNCHANGED <<timer, kind, data, file, pretty, lock, guards, pc, seed>>

\* a guard is destroyed without any persistence: only its inner
\* parking_lot guard is dropped
Release(t, g, op) ==
    /\ guards' = [guards EXCEPT ![t][g] = @ - 1]
    /\ lock' = unlock_for(g, lock)
    /\ Note(op, g, t, "ok", "unit", FALSE)
    /\ UNCHANGED <<timer, kind, data, file, pretty, pc, seed>>

\* a guard is consumed and another kind returned, the lock word becoming l2
Convert(t, g, h, l2, op, res) ==
    /\ guards' = [guards EXCEPT ![t] = [[@ EXCEPT ![g] = @ - 1] EXCEPT ![h] = @ + 1]]
    /\ lock' = l2
    /\ Note(op, g, t, "ok", res, FALSE)
    /\ UNCHANGED <<timer, kind, data, file, pretty, pc, seed>>

\* DerefMut::deref_mut of a write-capable guard: the caller stores v
deref_mut(t) ==
    \E g \in WriteCapable, v \in Values :
        /\ Owns(t, g)
        /\ data' = v
        /\ Note("deref_mut", g, t, "ok", "unit", FALSE)
        /\ UNCHANGED <<timer, kind, file, pretty, lock, guards, pc, seed>>

\* ------------------------------------------------------------------- Jsave
Jsave_read(t) ==
    /\ Ready(t, "Jsave") /\ Room(t)
    /\ can_lock_shared(lock)
    /\ Acquire(t, "JsaveReadGuard", lock_shared(lock), "read", "guard")

Jsave_write(t) ==
    /\ Ready(t, "Jsave") /\ Room(t)
    /\ can_lock_exclusive(lock)
    /\ Acquire(t, "JsaveWriteGuard", lock_exclusive(lock), "write", "guard")

JsaveReadGuard_drop(t) ==
    /\ Owns(t, "JsaveReadGuard")
    /\ Release(t, "JsaveReadGuard", "drop")

\* mutant: the guard has no Drop body; only the lock is given back
JsaveWriteGuard_drop_no_persist(t) ==
    /\ Owns(t, "JsaveWriteGuard")
    /\ pc' = [pc EXCEPT ![t] = "drop"]
    /\ Note("drop", "JsaveWriteGuard", t, "ok", "unit", FALSE)
    /\ UNCHANGED <<timer, kind, data, file, pretty, lock, guards, seed>>

\* mutant: the persist's result is unwrapped, so a failure panics
JsaveWriteGuard_drop_unwrap(t) ==
    /\ Owns(t, "JsaveWriteGuard")
    /\ \E io \in WriteIo : \E cut \in Prefixes(to_writer(data)) :
         LET r == JsavePersist(data, file, io, cut) IN
         /\ file' = r.fs
         /\ seed' = IF r.wrote THEN NoSeed ELSE seed
         /\ pc' = [pc EXCEPT ![t] = "drop"]
         /\ Note("drop", "JsaveWriteGuard", t, io,
                 IF r.res = "Ok" THEN "unit" ELSE "panic", r.wrote)
    /\ UNCHANGED <<timer, kind, data, pretty, lock, guards>>

\* Drop::drop of JsaveWriteGuard: the body persists while the inner write
\* guard is still a live field; any failure is discarded
\* mutant: the guard's fields (the inner lock guard) go first, the persist
\* runs with the lock already released
JsaveWriteGuard_drop_unlocks_first(t) ==
    /\ Owns(t, "JsaveWriteGuard")
    /\ \E io \in WriteIo : \E cut \in Prefixes(to_writer(data)) :
         LET r == JsavePersist(data, file, io, cut) IN
         /\ file' = r.fs
         /\ seed' = IF r.wrote THEN NoSeed ELSE seed
         /\ pc' = [pc EXCEPT ![t] = "drop"]
         /\ Note("drop", "JsaveWriteGuard", t, io, "unit", r.wrote)
    /\ lock' = unlock_exclusive(lock)
    /\ UNCHANGED <<timer, kind, data, pretty, guards>>

JsaveWriteGuard_drop(t) ==
    /\ Owns(t, "JsaveWriteGuard")
    /\ \E io \in WriteIo : \E cut \in Prefixes(to_writer(data)) :
         LET r == JsavePersist(data, file, io, cut) IN
         /\ file' = r.fs
         /\ seed' = IF r.wrote THEN NoSeed ELSE seed
         /\ pc' = [pc EXCEPT ![t] = "drop"]
         /\ Note("drop", "JsaveWriteGuard", t, io, "unit", r.wrote)
    /\ UNCHANGED <<timer, kind, data, pretty, lock, guards>>

\* ... and then the fields are dropped: the inner guard unlocks
JsaveWriteGuard_drop_fields(t) ==
    /\ pc[t] = "drop"
    /\ guards[t]["JsaveWriteGuard"] > 0
    /\ guards' = [guards EXCEPT ![t]["JsaveWriteGuard"] = @ - 1]
    /\ lock' = unlock_exclusive(lock)
    /\ pc' = [pc EXCEPT ![t] = "idle"]
    /\ UNCHANGED <<timer, kind, data, file, pretty, last, seed>>

\* ------------------------------------------------------------------- Mutex
Mutex_lock(t) ==
    /\ Ready(t, "Mutex") /\ Room(t)
    /\ ~lock.excl
    /\ Acquire(t, "MutexGuard", lock_exclusive(lock), "lock", "guard")

\* mutant: try_lock hands out a guard whether or not the lock is held
Mutex_try_lock_barging(t) ==
    /\ Ready(t, "Mutex") /\ Room(t)
    /\ Acquire(t, "MutexGuard", lock_exclusive(lock), "try_lock", "Some")

Mutex_try_lock(t) ==
    /\ Ready(t, "Mutex")
    /\ IF ~lock.excl
       THEN Room(t) /\ Acquire(t, "MutexGuard", lock_exclusive(lock), "try_lock", "Some")
       ELSE Empty(t, "", "try_lock", "None")

\* mutant: try_lock_for forwards to try_lock, dropping the timeout
Mutex_try_lock_for_no_wait(t) ==
    /\ Ready(t, "Mutex")
    /\ IF ~lock.excl
       THEN Room(t) /\ Acquire(t, "MutexGuard", lock_exclusive(lock),
                               "try_lock_for", "Some")
       ELSE Empty(t, "", "try_lock_for", "None")

\* try_lock_for(d) / try_lock_until(now + d): the timeout is handed to
\* parking_lot unchanged; the call returns at once when the mutex is free,
\* else the thread waits for it
Mutex_try_lock_for(t) ==
    /\ Ready(t, "Mutex")
    /\ IF ~lock.excl
       THEN Room(t) /\ Acquire(t, "MutexGuard", lock_exclusive(lock),
                               "try_lock_for", "Some")
       ELSE /\ \E d \in 1..MaxTimeout : timer' = [timer EXCEPT ![t] = [d |-> d, e |-> 0]]
            /\ pc' = [pc EXCEPT ![t] = "try_lock_for"]
            /\ UNCHANGED <<kind, data, file, pretty, lock, guards, last, seed>>

\* the mutex was released in time: the waiting call returns Some(guard)
Mutex_try_lock_for_granted(t) ==
    /\ kind = "Mutex" /\ pc[t] = "try_lock_for"
    /\ ~lock.excl /\ Room(t)
    /\ guards' = [guards EXCEPT ![t]["MutexGuard"] = @ + 1]
    /\ lock' = lock_exclusive(lock)
    /\ pc' = [pc EXCEPT ![t] = "idle"]
    /\ timer' = [timer EXCEPT ![t] = NoTimer]
    /\ Note("try_lock_for", "", t, "ok", "Some", FALSE)
    /\ UNCHANGED <<kind, data, file, pretty, seed>>

\* the timeout ran out: the waiting call returns None
Mutex_try_lock_for_timeout(t) ==
    /\ kind = "Mutex" /\ pc[t] = "try_lock_for"
    /\ timer[t].e >= timer[t].d
    /\ pc' = [pc EXCEPT ![t] = "idle"]
    /\ timer' = [timer EXCEPT ![t] = NoTimer]
    /\ Note("try_lock_for", "", t, "ok", "None", FALSE)
    /\ UNCHANGED <<kind, data, file, pretty, lock, guards, seed>>

\* one unit of time passes for every thread waiting in a bounded acquire
Tick ==
    /\ \E t \in Threads : pc[t] = "try_lock_for" /\ timer[t].e < timer[t].d
    /\ timer' = [t \in Threads |->
                   IF pc[t] = "try_lock_for" /\ timer[t].e < timer[t].d
                   THEN [timer[t] EXCEPT !.e = @ + 1] ELSE timer[t]]
    /\ UNCHANGED <<kind, data, file, pretty, lock, guards, pc, last, seed>>

\* MutexGuard has no Drop impl: going out of scope only drops its fields
MutexGuard_drop(t) ==
    /\ Owns(t, "MutexGuard")
    /\ Release(t, "MutexGuard", "drop")

MutexGuard_unlock_fair(t) ==
    /\ Owns(t, "MutexGuard")
    /\ Release(t, "MutexGuard", "unlock_fair")

\* unsafe force_unlock / force_unlock_fair: the raw lock is released with no
\* guard involved.  Its contract: the caller owns a guard it has discarded
\* with mem::forget, which is the step modelled (forget, then force-unlock).
Mutex_force_unlock(t) ==
    /\ kind = "Mutex" /\ Owns(t, "MutexGuard")
    /\ \E op \in {"force_unlock", "force_unlock_fair"} :
         /\ guards' = [guards EXCEPT ![t]["MutexGuard"] = @ - 1]
         /\ lock' = unlock_exclusive(lock)
         /\ Note(op, "Mutex", t, "ok", "unit", FALSE)
    /\ UNCHANGED <<timer, kind, data, file, pretty, pc, seed>>

MutexGuard_map(t) ==
    /\ Owns(t, "MutexGuard")
    /\ Convert(t, "MutexGuard", "MappedMutexGuard", lock, "map", "mapped")

\* mutant: on None the inner guard is let go instead of being wrapped again
MutexGuard_try_map_drops(t) ==
    /\ Owns(t, "MutexGuard")
    /\ \/ Convert(t, "MutexGuard", "MappedMutexGuard", lock, "try_map", "Ok")
       \/ /\ guards' = [guards EXCEPT ![t]["MutexGuard"] = @ - 1]
          /\ lock' = unlock_exclusive(lock)
          /\ Note("try_map", "MutexGuard", t, "ok", "Err", FALSE)
          /\ UNCHANGED <<timer, kind, data, file, pretty, pc, seed>>

MutexGuard_try_map(t) ==
    /\ Owns(t, "MutexGuard")
    /\ \/ Convert(t, "MutexGuard", "MappedMutexGuard", lock, "try_map", "Ok")
       \/ Empty(t, "MutexGuard", "try_map", "Err")

\* mutant: releasing the mapped guard saves the value on the way out
MappedMutexGuard_drop_persist(t) ==
    /\ Owns(t, "MappedMutexGuard")
    /\ \E op \in {"drop", "unlock_fair"} :
         LET r == save_data_to_path(data, file, "ok", <<>>, pretty) IN
         /\ file' = r.fs
         /\ guards' = [guards EXCEPT ![t]["MappedMutexGuard"] = @ - 1]
         /\ lock' = unlock_exclusive(lock)
         /\ Note(op, "MappedMutexGuard", t, "ok", "unit", r.wrote)
    /\ UNCHANGED <<timer, kind, data, pretty, pc, seed>>

MappedMutexGuard_drop(t) ==
    /\ Owns(t, "MappedMutexGuard")
    /\ \E op \in {"drop", "unlock_fair"} : Release(t, "MappedMutexGuard", op)

\* ------------------------------------------------------- the save family
SaveOps == {"save", "try_save"}

\* save takes the lock exclusively (self.data.lock() / self.data.write());
\* the thread is then inside the call, holding the internal guard
SaveBegin(k, t) ==
    /\ Ready(t, k)
    /\ can_lock_exclusive(lock)
    /\ \E op \in SaveOps : pc' = [pc EXCEPT ![t] = op]
    /\ lock' = lock_exclusive(lock)
    /\ UNCHANGED <<timer, kind, data, file, pretty, guards, last, seed>>

\* the try_ forms come back with None when the lock is not granted
SaveEmpty(k, t) ==
    /\ Ready(t, k)
    /\ ~can_lock_exclusive(lock)
    /\ \E op \in SaveOps \ {"save"} : Empty(t, "", op, "None")

\* save_data_to_path under the internal guard, whose drop then unlocks; the
\* call returns the write's result
SaveEnd(k, t) ==
    /\ kind = k
    /\ pc[t] \in SaveOps
    /\ \E io \in WriteIo : \E cut \in Prefixes(Encode(data, pretty)) :
         LET r == save_data_to_path(data, file, io, cut, pretty) IN
         /\ file' = r.fs
         /\ seed' = IF r.wrote THEN NoSeed ELSE seed
         /\ Note(pc[t], "", t, io, r.res, r.wrote)
    /\ lock' = unlock_exclusive(lock)
    /\ pc' = [pc EXCEPT ![t] = "idle"]
    /\ UNCHANGED <<timer, kind, data, pretty, guards>>

\* the blocking save finds the lock taken: the thread parks inside
\* self.data.lock() / self.data.write()
SaveWait(k, t) ==
    /\ Ready(t, k)
    /\ ~can_lock_exclusive(lock)
    /\ pc' = [pc EXCEPT ![t] = "save_wait"]
    /\ UNCHANGED <<timer, kind, data, file, pretty, lock, guards, last, seed>>

\* the lock has become free: the parked save takes it and goes on to write
SaveWake(k, t) ==
    /\ kind = k
    /\ pc[t] = "save_wait"
    /\ can_lock_exclusive(lock)
    /\ pc' = [pc EXCEPT ![t] = "save"]
    /\ lock' = lock_exclusive(lock)
    /\ UNCHANGED <<timer, kind, data, file, pretty, guards, last, seed>>

\* mutant: save reads the value through data_ptr without taking the lock
Mutex_save_unlocked(t) ==
    /\ Ready(t, "Mutex")
    /\ \E op \in SaveOps : pc' = [pc EXCEPT ![t] = op]
    /\ UNCHANGED <<timer, kind, data, file, pretty, lock, guards, last, seed>>

Mutex_save(t) == SaveBegin("Mutex", t)

\* mutant: a try_save that finds the lock taken reports an I/O error
Mutex_try_save_none_as_error(t) ==
    /\ Ready(t, "Mutex")
    /\ ~can_lock_exclusive(lock)
    /\ \E op \in SaveOps \ {"save"} : Empty(t, "", op, "Io")

Mutex_try_save_none(t) == SaveEmpty("Mutex", t)

\* mutant: a failed write returns early with the internal guard leaked
Mutex_save_write_leaks_on_error(t) ==
    /\ kind = "Mutex"
    /\ pc[t] \in SaveOps
    /\ \E io \in WriteIo : \E cut \in Prefixes(Encode(data, pretty)) :
         LET r == save_data_to_path(data, file, io, cut, pretty) IN
         /\ file' = r.fs
         /\ seed' = IF r.wrote THEN NoSeed ELSE seed
         /\ Note(pc[t], "", t, io, r.res, r.wrote)
         /\ lock' = IF r.res = "Ok" THEN unlock_exclusive(lock) ELSE lock
    /\ pc' = [pc EXCEPT ![t] = "idle"]
    /\ UNCHANGED <<timer, kind, data, pretty, guards>>

Mutex_save_write(t) == SaveEnd("Mutex", t)
Mutex_save_wait(t) == SaveWait("Mutex", t)

\* mutant: the parked save goes on as soon as it is scheduled, whoever holds
\* the lock
Mutex_save_wake_barging(t) ==
    /\ kind = "Mutex"
    /\ pc[t] = "save_wait"
    /\ pc' = [pc EXCEPT ![t] = "save"]
    /\ lock' = lock_exclusive(lock)
    /\ UNCHANGED <<timer, kind, data, file, pretty, guards, last, seed>>

Mutex_save_wake(t) == SaveWake("Mutex", t)
RwLock_save(t) == SaveBegin("RwLock", t)
RwLock_try_save_none(t) == SaveEmpty("RwLock", t)
RwLock_save_write(t) == SaveEnd("RwLock", t)
RwLock_save_wait(t) == SaveWait("RwLock", t)
RwLock_save_wake(t) == SaveWake("RwLock", t)

\* get_mut(&mut self): the borrow checker admits it only with no guard alive
get_mut ==
    /\ kind \in {"Mutex", "ReentrantMutex", "RwLock"}
    /\ Quiescent
    /\ \E v \in Values : data' = v
    /\ Note("get_mut", kind, 0, "ok", "unit", FALSE)
    /\ UNCHANGED <<timer, kind, file, pretty, lock, guards, pc, seed>>

\* mutant: into_inner hands back what the file holds (a reload), or the
\* default when it holds nothing decodable
into_inner_reloads ==
    /\ kind \in {"Mutex", "ReentrantMutex", "RwLock"}
    /\ Quiescent
    /\ kind' = "None" /\ data' = ReadDecode(file, "ok").val
    /\ Note("into_inner", kind, 0, "ok", "value", FALSE)
    /\ UNCHANGED <<timer, file, pretty, lock, guards, pc, seed>>

\* into_inner(self): consumes the wrapper and moves the value out to the
\* caller; `data` keeps the value handed out until the next construction.
\* No file is touched.
into_inner ==
    /\ kind \in {"Mutex", "ReentrantMutex", "RwLock"}
    /\ Quiescent
    /\ kind' = "None" /\ data' = data
    /\ Note("into_inner", kind, 0, "ok", "value", FALSE)
    /\ UNCHANGED <<timer, file, pretty, lock, guards, pc, seed>>

\* ---------------------------------------------------------- ReentrantMutex
ReentrantMutex_lock(t) ==
    /\ Ready(t, "ReentrantMutex") /\ Room(t)
    /\ can_lock_reentrant(lock, t)
    /\ Acquire(t, "ReentrantMutexGuard", lock_reentrant(lock, t), "lock", "guard")

\* mutant: try_lock enters whoever owns the mutex
ReentrantMutex_try_lock_any_owner(t) ==
    /\ Ready(t, "ReentrantMutex") /\ Room(t)
    /\ Acquire(t, "ReentrantMutexGuard", lock_reentrant(lock, t), "try_lock", "Some")

ReentrantMutex_try_lock(t) ==
    /\ Ready(t, "ReentrantMutex")
    /\ IF can_lock_reentrant(lock, t)
       THEN Room(t) /\ Acquire(t, "ReentrantMutexGuard", lock_reentrant(lock, t),
                               "try_lock", "Some")
       ELSE Empty(t, "", "try_lock", "None")

ReentrantMutex_is_owned_by_current_thread(t) ==
    /\ Ready(t, "ReentrantMutex")
    /\ Empty(t, "", "is_owned_by_current_thread",
             IF lock.owner = t THEN "true" ELSE "false")

ReentrantMutexGuard_drop(t) ==
    /\ Owns(t, "ReentrantMutexGuard")
    /\ \E op \in {"drop", "unlock_fair"} : Release(t, "ReentrantMutexGuard", op)

\* unsafe force_unlock / force_unlock_fair of the reentrant mutex: one level
\* of a forgotten guard is given back
ReentrantMutex_force_unlock(t) ==
    /\ kind = "ReentrantMutex" /\ Owns(t, "ReentrantMutexGuard")
    /\ \E op \in {"force_unlock", "force_unlock_fair"} :
         /\ guards' = [guards EXCEPT ![t]["ReentrantMutexGuard"] = @ - 1]
         /\ lock' = unlock_reentrant(lock)
         /\ Note(op, "ReentrantMutex", t, "ok", "unit", FALSE)
    /\ UNCHANGED <<timer, kind, data, file, pretty, pc, seed>>

\* map: the closure gets &T
ReentrantMutexGuard_map(t) ==
    /\ Owns(t, "ReentrantMutexGuard")
    /\ Convert(t, "ReentrantMutexGuard", "MappedReentrantMutexGuard", lock,
               "map", "mapped")

\* try_map: F: FnOnce(&mut T) -> Option<&mut U>; the closure may store into
\* the protected value before it answers Some or None
ReentrantMutexGuard_try_map(t) ==
    /\ Owns(t, "ReentrantMutexGuard")
    /\ \E v \in Values \cup {data} :
         /\ data' = v
         /\ \/ /\ guards' = [guards EXCEPT ![t] =
                      [[@ EXCEPT !["ReentrantMutexGuard"] = @ - 1]
                          EXCEPT !["MappedReentrantMutexGuard"] = @ + 1]]
               /\ Note("try_map", "ReentrantMutexGuard", t, "ok", "Ok", FALSE)
            \/ /\ guards' = guards
               /\ Note("try_map", "ReentrantMutexGuard", t, "ok", "Err", FALSE)
    /\ UNCHANGED <<timer, kind, file, pretty, lock, pc, seed>>

\* map / try_map of the mapped guard: the closure gets &T, the guard kind stays
MappedReentrantMutexGuard_map(t) ==
    /\ Owns(t, "MappedReentrantMutexGuard")
    /\ Empty(t, "MappedReentrantMutexGuard", "map", "mapped")

MappedReentrantMutexGuard_try_map(t) ==
    /\ Owns(t, "MappedReentrantMutexGuard")
    /\ \E res \in {"Ok", "Err"} : Empty(t, "MappedReentrantMutexGuard", "try_map", res)

MappedReentrantMutexGuard_drop(t) ==
    /\ Owns(t, "MappedReentrantMutexGuard")
    /\ \E op \in {"drop", "unlock_fair"} : Release(t, "MappedReentrantMutexGuard", op)

\* save: self.data.lock() re-enters when the caller already owns the mutex
ReentrantMutex_save(t) ==
    /\ Ready(t, "ReentrantMutex")
    /\ can_lock_reentrant(lock, t)
    /\ \E op \in SaveOps : pc' = [pc EXCEPT ![t] = op]
    /\ lock' = lock_reentrant(lock, t)
    /\ UNCHANGED <<timer, kind, data, file, pretty, guards, last, seed>>

ReentrantMutex_try_save_none(t) ==
    /\ Ready(t, "ReentrantMutex")
    /\ ~can_lock_reentrant(lock, t)
    /\ \E op \in SaveOps \ {"save"} : Empty(t, "", op, "None")

ReentrantMutex_save_write(t) ==
    /\ kind = "ReentrantMutex"
    /\ pc[t] \in SaveOps
    /\ \E io \in WriteIo : \E cut \in Prefixes(Encode(data, pretty)) :
         LET r == save_data_to_path(data, file, io, cut, pretty) IN
         /\ file' = r.fs
         /\ seed' = IF r.wrote THEN NoSeed ELSE seed
         /\ Note(pc[t], "", t, io, r.res, r.wrote)
    /\ lock' = unlock_reentrant(lock)
    /\ pc' = [pc EXCEPT ![t] = "idle"]
    /\ UNCHANGED <<timer, kind, data, pretty, guards>>

\* ------------------------------------------------------------------ RwLock
\* a thread is parked in write(), waiting for the holders to leave
WriterParked == \E t \in Threads : pc[t] \in {"write", "save_wait"}

\* parking_lot's policy for readers: read / try_read* do not pass a waiting
\* writer; read_recursive / try_read_recursive* do while a read lock is held
can_read(op, l) ==
    /\ can_lock_shared(l)
    /\ IF op \in {"read", "try_read"} THEN ~WriterParked
       ELSE ~WriterParked \/ l.shared > 0

\* mutant: read() is forwarded to read_recursive()
RwLock_read_as_recursive(t) ==
    /\ Ready(t, "RwLock") /\ Room(t)
    /\ \E op \in {"read", "read_recursive"} :
         /\ can_read("read_recursive", lock)
         /\ Acquire(t, "RwLockReadGuard", lock_shared(lock), op, "guard")

RwLock_read(t) ==
    /\ Ready(t, "RwLock") /\ Room(t)
    /\ \E op \in {"read", "read_recursive"} :
         /\ can_read(op, lock)
         /\ Acquire(t, "RwLockReadGuard", lock_shared(lock), op, "guard")

RwLock_try_read(t) ==
    /\ Ready(t, "RwLock")
    /\ \E op \in {"try_read", "try_read_recursive"} :
         IF can_read(op, lock)
         THEN Room(t) /\ Acquire(t, "RwLockReadGuard", lock_shared(lock), op, "Some")
         ELSE Empty(t, "", op, "None")

\* mutant: write() takes the raw lock with read() and wraps it as a write guard
RwLock_write_shared(t) ==
    /\ Ready(t, "RwLock") /\ Room(t)
    /\ can_lock_shared(lock)
    /\ Acquire(t, "RwLockWriteGuard", lock_shared(lock), "write", "guard")

RwLock_write(t) ==
    /\ Ready(t, "RwLock") /\ Room(t)
    /\ can_lock_exclusive(lock)
    /\ Acquire(t, "RwLockWriteGuard", lock_exclusive(lock), "write", "guard")

\* write() finds the lock held: the thread parks until it is free.  (A
\* thread that holds a guard of this lock would wait for itself; that call
\* is left out.)
RwLock_write_wait(t) ==
    /\ Ready(t, "RwLock") /\ NumGuards(t) = 0
    /\ ~can_lock_exclusive(lock)
    /\ pc' = [pc EXCEPT ![t] = "write"]
    /\ UNCHANGED <<timer, kind, data, file, pretty, lock, guards, last, seed>>

\* the holders have left: the parked write() returns its guard
RwLock_write_wake(t) ==
    /\ kind = "RwLock" /\ pc[t] = "write"
    /\ can_lock_exclusive(lock)
    /\ guards' = [guards EXCEPT ![t]["RwLockWriteGuard"] = @ + 1]
    /\ lock' = lock_exclusive(lock)
    /\ pc' = [pc EXCEPT ![t] = "idle"]
    /\ Note("write", "", t, "ok", "guard_after_wait", FALSE)
    /\ UNCHANGED <<timer, kind, data, file, pretty, seed>>

\* mutant: a refused try_write force-unlocks the writer on its way out
RwLock_try_write_forces(t) ==
    /\ Ready(t, "RwLock")
    /\ IF can_lock_exclusive(lock)
       THEN Room(t) /\ Acquire(t, "RwLockWriteGuard", lock_exclusive(lock), "try_write", "Some")
       ELSE /\ lock' = unlock_exclusive(lock)
            /\ Note("try_write", "", t, "ok", "None", FALSE)
            /\ UNCHANGED <<timer, kind, data, file, pretty, guards, pc, seed>>

RwLock_try_write(t) ==
    /\ Ready(t, "RwLock")
    /\ IF can_lock_exclusive(lock)
       THEN Room(t) /\ Acquire(t, "RwLockWriteGuard", lock_exclusive(lock), "try_write", "Some")
       ELSE Empty(t, "", "try_write", "None")

\* mutant: upgradable_read takes the raw lock with the test of read()
RwLock_upgradable_read_as_read(t) ==
    /\ Ready(t, "RwLock") /\ Room(t)
    /\ can_lock_shared(lock)
    /\ Acquire(t, "RwLockUpgradableReadGuard", lock_upgradable(lock),
               "upgradable_read", "guard")

\* an upgradable read is a reader: it does not pass a waiting writer either
RwLock_upgradable_read(t) ==
    /\ Ready(t, "RwLock") /\ Room(t)
    /\ can_lock_upgradable(lock) /\ ~WriterParked
    /\ Acquire(t, "RwLockUpgradableReadGuard", lock_upgradable(lock),
               "upgradable_read", "guard")

RwLock_try_upgradable_read(t) ==
    /\ Ready(t, "RwLock")
    /\ IF can_lock_upgradable(lock) /\ ~WriterParked
       THEN Room(t) /\ Acquire(t, "RwLockUpgradableReadGuard", lock_upgradable(lock),
                    "try_upgradable_read", "Some")
       ELSE Empty(t, "", "try_upgradable_read", "None")

\* mutant: the read guard persists the value when it is released
RwLockReadGuard_drop_persist(t) ==
    /\ Owns(t, "RwLockReadGuard")
    /\ \E op \in {"drop", "unlock_fair"} :
         LET r == save_data_to_path(data, file, "ok", <<>>, pretty) IN
         /\ file' = r.fs
         /\ seed' = NoSeed
         /\ guards' = [guards EXCEPT ![t]["RwLockReadGuard"] = @ - 1]
         /\ lock' = unlock_shared(lock)
         /\ Note(op, "RwLockReadGuard", t, "ok", "unit", r.wrote)
    /\ UNCHANGED <<timer, kind, data, pretty, pc>>

\* RwLockReadGuard, MappedRwLockReadGuard
RwLockReadGuard_drop(t) ==
    /\ Owns(t, "RwLockReadGuard")
    /\ \E op \in {"drop", "unlock_fair"} : Release(t, "RwLockReadGuard", op)

\* unsafe force_unlock_read / force_unlock_read_fair: a forgotten read guard's
\* share is given back
RwLock_force_unlock_read(t) ==
    /\ kind = "RwLock" /\ Owns(t, "RwLockReadGuard")
    /\ \E op \in {"force_unlock_read", "force_unlock_read_fair"} :
         /\ guards' = [guards EXCEPT ![t]["RwLockReadGuard"] = @ - 1]
         /\ lock' = unlock_shared(lock)
         /\ Note(op, "RwLock", t, "ok", "unit", FALSE)
    /\ UNCHANGED <<timer, kind, data, file, pretty, pc, seed>>

\* mutant: force_unlock_write_and_save saves the value before unlocking
RwLock_force_unlock_write_saves(t) ==
    /\ kind = "RwLock" /\ Owns(t, "RwLockWriteGuard")
    /\ \E op \in {"force_unlock_write_and_save", "force_unlock_write_and_save_fair"} :
         LET r == save_data_to_path(data, file, "ok", <<>>, pretty) IN
         /\ file' = r.fs
         /\ guards' = [guards EXCEPT ![t]["RwLockWriteGuard"] = @ - 1]
         /\ lock' = unlock_exclusive(lock)
         /\ Note(op, "RwLock", t, "ok", "unit", r.wrote)
    /\ UNCHANGED <<timer, kind, data, pretty, pc, seed>>

\* unsafe force_unlock_write_and_save / force_unlock_write_and_save_fair:
\* the body is self.data.force_unlock_write[_fair]() and nothing else
RwLock_force_unlock_write_and_save(t) ==
    /\ kind = "RwLock" /\ Owns(t, "RwLockWriteGuard")
    /\ \E op \in {"force_unlock_write_and_save", "force_unlock_write_and_save_fair"} :
         /\ guards' = [guards EXCEPT ![t]["RwLockWriteGuard"] = @ - 1]
         /\ lock' = unlock_exclusive(lock)
         /\ Note(op, "RwLock", t, "ok", "unit", FALSE)
    /\ UNCHANGED <<timer, kind, data, file, pretty, pc, seed>>

RwLockReadGuard_map(t) ==
    /\ Owns(t, "RwLockReadGuard")
    /\ Convert(t, "RwLockReadGuard", "MappedRwLockReadGuard", lock, "map", "mapped")

RwLockReadGuard_try_map(t) ==
    /\ Owns(t, "RwLockReadGuard")
    /\ \/ Convert(t, "RwLockReadGuard", "MappedRwLockReadGuard", lock, "try_map", "Ok")
       \/ Empty(t, "RwLockReadGuard", "try_map", "Err")

MappedRwLockReadGuard_drop(t) ==
    /\ Owns(t, "MappedRwLockReadGuard")
    /\ \E op \in {"drop", "unlock_fair"} : Release(t, "MappedRwLockReadGuard", op)

\* RwLockWriteGuard has no Drop impl: going out of scope only drops its fields
RwLockWriteGuard_drop(t) ==
    /\ Owns(t, "RwLockWriteGuard")
    /\ Release(t, "RwLockWriteGuard", "drop")

RwLockWriteGuard_unlock_fair(t) ==
    /\ Owns(t, "RwLockWriteGuard")
    /\ Release(t, "RwLockWriteGuard", "unlock_fair")

RwLockWriteGuard_map(t) ==
    /\ Owns(t, "RwLockWriteGuard")
    /\ Convert(t, "RwLockWriteGuard", "MappedRwLockWriteGuard", lock, "map", "mapped")

RwLockWriteGuard_try_map(t) ==
    /\ Owns(t, "RwLockWriteGuard")
    /\ \/ Convert(t, "RwLockWriteGuard", "MappedRwLockWriteGuard", lock, "try_map", "Ok")
       \/ Empty(t, "RwLockWriteGuard", "try_map", "Err")

MappedRwLockWriteGuard_drop(t) ==
    /\ Owns(t, "MappedRwLockWriteGuard")
    /\ \E op \in {"drop", "unlock_fair"} : Release(t, "MappedRwLockWriteGuard", op)

\* mutant: downgrade drops the write guard and takes a fresh read lock
\* afterwards; the lock is free in between
RwLockWriteGuard_downgrade_by_release(t) ==
    /\ Owns(t, "RwLockWriteGuard")
    /\ Release(t, "RwLockWriteGuard", "downgrade")

\* exclusive -> shared in one atomic step of the raw lock
\* mutant: downgrade saves the value before the lock goes shared
RwLockWriteGuard_downgrade_persist(t) ==
    /\ Owns(t, "RwLockWriteGuard")
    /\ LET r == save_data_to_path(data, file, "ok", <<>>, pretty) IN
       /\ file' = r.fs
       /\ guards' = [guards EXCEPT ![t] = [[@ EXCEPT !["RwLockWriteGuard"] = @ - 1]
                                              EXCEPT !["RwLockReadGuard"] = @ + 1]]
       /\ lock' = lock_shared(unlock_exclusive(lock))
       /\ Note("downgrade", "RwLockWriteGuard", t, "ok", "guard", r.wrote)
    /\ UNCHANGED <<timer, kind, data, pretty, pc, seed>>

RwLockWriteGuard_downgrade(t) ==
    /\ Owns(t, "RwLockWriteGuard")
    /\ Convert(t, "RwLockWriteGuard", "RwLockReadGuard",
               lock_shared(unlock_exclusive(lock)), "downgrade", "guard")

RwLockWriteGuard_downgrade_to_upgradable(t) ==
    /\ Owns(t, "RwLockWriteGuard")
    /\ Convert(t, "RwLockWriteGuard", "RwLockUpgradableReadGuard",
               lock_upgradable(unlock_exclusive(lock)), "downgrade_to_upgradable", "guard")

RwLockUpgradableReadGuard_drop(t) ==
    /\ Owns(t, "RwLockUpgradableReadGuard")
    /\ \E op \in {"drop", "unlock_fair"} : Release(t, "RwLockUpgradableReadGuard", op)

RwLockUpgradableReadGuard_downgrade(t) ==
    /\ Owns(t, "RwLockUpgradableReadGuard")
    /\ Convert(t, "RwLockUpgradableReadGuard", "RwLockReadGuard",
               lock_shared(unlock_upgradable(lock)), "downgrade", "guard")

\* upgrade waits until the ordinary readers have drained
RwLockUpgradableReadGuard_upgrade(t) ==
    /\ Owns(t, "RwLockUpgradableReadGuard")
    /\ can_upgrade(lock)
    /\ Convert(t, "RwLockUpgradableReadGuard", "RwLockWriteGuard",
               lock_exclusive(unlock_upgradable(lock)), "upgrade", "guard")

\* mutant: a failed try_upgrade lets the inner guard go instead of
\* wrapping it again
RwLockUpgradableReadGuard_try_upgrade_drops(t) ==
    /\ Owns(t, "RwLockUpgradableReadGuard")
    /\ IF can_upgrade(lock)
       THEN Convert(t, "RwLockUpgradableReadGuard", "RwLockWriteGuard",
                    lock_exclusive(unlock_upgradable(lock)), "try_upgrade", "Ok")
       ELSE /\ guards' = [guards EXCEPT ![t]["RwLockUpgradableReadGuard"] = @ - 1]
            /\ lock' = unlock_upgradable(lock)
            /\ Note("try_upgrade", "RwLockUpgradableReadGuard", t, "ok", "Err", FALSE)
            /\ UNCHANGED <<timer, kind, data, file, pretty, pc, seed>>

RwLockUpgradableReadGuard_try_upgrade(t) ==
    /\ Owns(t, "RwLockUpgradableReadGuard")
    /\ IF can_upgrade(lock)
       THEN Convert(t, "RwLockUpgradableReadGuard", "RwLockWriteGuard",
                    lock_exclusive(unlock_upgradable(lock)), "try_upgrade", "Ok")
       ELSE Empty(t, "RwLockUpgradableReadGuard", "try_upgrade", "Err")

\* ----------------------------------------------------------------- unlocked
\* Guard::unlocked(s, f) and unlocked_fair(s, f) forward to parking_lot's
\* guard: the raw lock is unlocked (in the guard's mode), f runs, and the raw
\* lock is locked again in the same mode, blocking, before the call returns.
\* While f runs the guard is lent to the call (&mut): the thread's position
\* names it and it is not counted among the guards in use.
UnlockedGuards == {"MutexGuard", "ReentrantMutexGuard", "RwLockReadGuard",
                   "RwLockWriteGuard", "RwLockUpgradableReadGuard"}

InUnlocked(g) == "unlocked:" \o g

\* the blocking re-acquisition in the mode of a guard of kind g
can_relock(g, l, t) ==
    IF g \in ExclusiveGuards THEN can_lock_exclusive(l)
    ELSE IF g \in ReentrantGuards THEN can_lock_reentrant(l, t)
    ELSE IF g \in UpgradableGuards THEN can_lock_upgradable(l) /\ ~WriterParked
    ELSE can_read("read", l)

relock(g, l, t) ==
    IF g \in ExclusiveGuards THEN lock_exclusive(l)
    ELSE IF g \in ReentrantGuards THEN lock_reentrant(l, t)
    ELSE IF g \in UpgradableGuards THEN lock_upgradable(l)
    ELSE lock_shared(l)

\* unlocked / unlocked_fair is entered: the lock is given back and f starts
UnlockedBegin(t, g) ==
    /\ Owns(t, g)
    /\ guards' = [guards EXCEPT ![t][g] = @ - 1]
    /\ lock' = unlock_for(g, lock)
    /\ pc' = [pc EXCEPT ![t] = InUnlocked(g)]
    /\ UNCHANGED <<timer, kind, data, file, pretty, last, seed>>

\* f has returned: the lock is taken again (the thread waits until it can
\* be) and the call returns f's value, the guard back in the caller's hands
UnlockedEnd(t, g) ==
    /\ pc[t] = InUnlocked(g)
    /\ can_relock(g, lock, t)
    /\ guards' = [guards EXCEPT ![t][g] = @ + 1]
    /\ lock' = relock(g, lock, t)
    /\ pc' = [pc EXCEPT ![t] = "idle"]
    /\ \E op \in {"unlocked", "unlocked_fair"} : Note(op, g, t, "ok", "value", FALSE)
    /\ UNCHANGED <<timer, kind, data, file, pretty, seed>>

MutexGuard_unlocked(t) == UnlockedBegin(t, "MutexGuard")

\* mutant: after f the guard is handed back without waiting for the lock
MutexGuard_unlocked_return_barging(t) ==
    /\ pc[t] = InUnlocked("MutexGuard")
    /\ guards' = [guards EXCEPT ![t]["MutexGuard"] = @ + 1]
    /\ lock' = lock_exclusive(lock)
    /\ pc' = [pc EXCEPT ![t] = "idle"]
    /\ \E op \in {"unlocked", "unlocked_fair"} :
         Note(op, "MutexGuard", t, "ok", "value", FALSE)
    /\ UNCHANGED <<timer, kind, data, file, pretty, seed>>

MutexGuard_unlocked_return(t) == UnlockedEnd(t, "MutexGuard")
ReentrantMutexGuard_unlocked(t) == UnlockedBegin(t, "ReentrantMutexGuard")
ReentrantMutexGuard_unlocked_return(t) == UnlockedEnd(t, "ReentrantMutexGuard")
RwLockReadGuard_unlocked(t) == UnlockedBegin(t, "RwLockReadGuard")
RwLockReadGuard_unlocked_return(t) == UnlockedEnd(t, "RwLockReadGuard")
RwLockWriteGuard_unlocked(t) == UnlockedBegin(t, "RwLockWriteGuard")
RwLockWriteGuard_unlocked_return(t) == UnlockedEnd(t, "RwLockWriteGuard")
RwLockUpgradableReadGuard_unlocked(t) ==
    UnlockedBegin(t, "RwLockUpgradableReadGuard")
RwLockUpgradableReadGuard_unlocked_return(t) ==
    UnlockedEnd(t, "RwLockUpgradableReadGuard")

\* ------------------------------------------------------- the specification
\* what may lie at L before the first wrapper is constructed
InitialFiles ==
    {NoFile,
     [exists |-> TRUE, content |-> <<>>],
     [exists |-> TRUE, content |-> <<"{", "counter", ":", "}">>]}
    \cup {[exists |-> TRUE, content |-> to_writer(v)] : v \in Values}
    \cup {[exists |-> TRUE, content |-> to_writer_pretty(v)] : v \in Values}

Init ==
    /\ kind = "None"
    /\ data = 0
    /\ file \in InitialFiles
    /\ pretty \in BOOLEAN
    /\ lock = Unlocked
    /\ guards = [t \in Threads |-> NoGuards]
    /\ pc = [t \in Threads |-> "idle"]
    /\ last = [op |-> "start", g |-> "", t |-> 0, io |-> "ok", res |-> "unit",
               wrote |-> FALSE]
    /\ seed = NoSeed
    /\ timer = [t \in Threads |-> NoTimer]

Next ==
    \/ Jsave_init \/ Jsave_init_with
    \/ Mutex_init \/ Mutex_init_with
    \/ RwLock_init \/ RwLock_init_with
    \/ ReentrantMutex_init \/ ReentrantMutex_init_with
    \/ Wrapper_drop \/ get_mut \/ into_inner
    \/ \E t \in Threads :
        \/ deref_mut(t)
        \/ Jsave_read(t) \/ Jsave_write(t)
        \/ JsaveReadGuard_drop(t)
        \/ JsaveWriteGuard_drop(t) \/ JsaveWriteGuard_drop_fields(t)
        \/ Mutex_lock(t) \/ Mutex_try_lock(t)
        \/ MutexGuard_drop(t) \/ MutexGuard_unlock_fair(t)
        \/ MutexGuard_map(t) \/ MutexGuard_try_map(t)
        \/ MappedMutexGuard_drop(t)
        \/ Mutex_save(t) \/ Mutex_try_save_none(t) \/ Mutex_save_write(t)
        \/ RwLock_save(t) \/ RwLock_try_save_none(t) \/ RwLock_save_write(t)
        \/ ReentrantMutex_lock(t) \/ ReentrantMutex_try_lock(t)
        \/ ReentrantMutex_is_owned_by_current_thread(t)
        \/ ReentrantMutexGuard_drop(t) \/ ReentrantMutexGuard_map(t)
        \/ ReentrantMutexGuard_try_map(t)
        \/ MappedReentrantMutexGuard_map(t) \/ MappedReentrantMutexGuard_try_map(t)
        \/ MappedReentrantMutexGuard_drop(t)
        \/ ReentrantMutex_save(t) \/ ReentrantMutex_try_save_none(t)
        \/ ReentrantMutex_save_write(t)
        \/ RwLock_read(t) \/ RwLock_try_read(t)
        \/ RwLock_write(t) \/ RwLock_try_write(t)
        \/ RwLock_write_wait(t) \/ RwLock_write_wake(t)
        \/ RwLock_upgradable_read(t) \/ RwLock_try_upgradable_read(t)
        \/ RwLockReadGuard_drop(t) \/ RwLockReadGuard_map(t)
        \/ RwLockReadGuard_try_map(t) \/ MappedRwLockReadGuard_drop(t)
        \/ RwLockWriteGuard_drop(t) \/ RwLockWriteGuard_unlock_fair(t)
        \/ RwLockWriteGuard_map(t) \/ RwLockWriteGuard_try_map(t)
        \/ MappedRwLockWriteGuard_drop(t)
        \/ RwLockWriteGuard_downgrade(t)
        \/ RwLockWriteGuard_downgrade_to_upgradable(t)
        \/ RwLockUpgradableReadGuard_drop(t)
        \/ RwLockUpgradableReadGuard_downgrade(t)
        \/ RwLockUpgradableReadGuard_upgrade(t)
        \/ RwLockUpgradableReadGuard_try_upgrade(t)

Spec == Init /\ [][Next]_vars

\* ------------------------------------------------- a Mutex under a clock
\* The wrapper Mutex::init_with(v, L) has just returned, and lives on; the
\* bounded acquires try_lock_for / try_lock_until wait while time passes.
\* The threads contend for the lock through its guards; none of them stores
\* into the value or saves it.
MutexInit ==
    /\ kind = "Mutex"
    /\ data \in Values
    /\ pretty \in BOOLEAN
    /\ file = [exists |-> TRUE, content |-> Encode(data, pretty)]
    /\ lock = Unlocked
    /\ guards = [t \in Threads |-> NoGuards]
    /\ pc = [t \in Threads |-> "idle"]
    /\ last = [op |-> "init_with", g |-> "Mutex", t |-> 0, io |-> "ok",
               res |-> "Ok", wrote |-> TRUE]
    /\ seed = {data}
    /\ timer = [t \in Threads |-> NoTimer]

MutexNext ==
    \/ Tick
    \/ \E t \in Threads :
        \/ Mutex_lock(t) \/ Mutex_try_lock(t)
        \/ Mutex_try_lock_for(t) \/ Mutex_try_lock_for_granted(t)
        \/ Mutex_try_lock_for_timeout(t)
        \/ MutexGuard_drop(t) \/ MutexGuard_unlock_fair(t)
        \/ MutexGuard_map(t) \/ MutexGuard_try_map(t)
        \/ MappedMutexGuard_drop(t)

TimedSpec == MutexInit /\ [][MutexNext]_vars

\* ------------------------------------------- an RwLock under fair scheduling
\* The wrapper RwLock::init_with(v, L) has just returned, and lives on.  The
\* threads contend for the lock through its guards; none of them stores into
\* the value or saves it.
RwLockInit ==
    /\ kind = "RwLock"
    /\ data \in Values
    /\ pretty \in BOOLEAN
    /\ file = [exists |-> TRUE, content |-> Encode(data, pretty)]
    /\ lock = Unlocked
    /\ guards = [t \in Threads |-> NoGuards]
    /\ pc = [t \in Threads |-> "idle"]
    /\ last = [op |-> "init_with", g |-> "RwLock", t |-> 0, io |-> "ok",
               res |-> "Ok", wrote |-> TRUE]
    /\ seed = {data}
    /\ timer = [t \in Threads |-> NoTimer]

\* nobody uses the recursive read forms (read_recursive is documented to let
\* readers pass a waiting writer)
NoRecursiveRead ==
    last' = last \/ last'.op \notin {"read_recursive", "try_read_recursive"}

\* every way a thread gives the lock back
RwLockRelease(t) ==
    \/ RwLockReadGuard_drop(t) \/ MappedRwLockReadGuard_drop(t)
    \/ RwLockWriteGuard_drop(t) \/ RwLockWriteGuard_unlock_fair(t)
    \/ MappedRwLockWriteGuard_drop(t)
    \/ RwLockUpgradableReadGuard_drop(t)

RwLockNext ==
    \E t \in Threads :
        \/ (RwLock_read(t) /\ NoRecursiveRead)
        \/ (RwLock_try_read(t) /\ NoRecursiveRead)
        \/ RwLock_write(t) \/ RwLock_try_write(t)
        \/ RwLock_write_wait(t) \/ RwLock_write_wake(t)
        \/ RwLock_upgradable_read(t) \/ RwLock_try_upgradable_read(t)
        \/ RwLockReadGuard_map(t) \/ RwLockReadGuard_try_map(t)
        \/ RwLockWriteGuard_map(t) \/ RwLockWriteGuard_try_map(t)
        \/ RwLockWriteGuard_downgrade(t)
        \/ RwLockWriteGuard_downgrade_to_upgradable(t)
        \/ RwLockUpgradableReadGuard_downgrade(t)
        \/ RwLockUpgradableReadGuard_upgrade(t)
        \/ RwLockUpgradableReadGuard_try_upgrade(t)
        \/ RwLockRelease(t)

\* The scheduling the no-starvation contract speaks of: parking_lot's queue
\* hands the free lock to each parked writer in turn, and holders keep
\* releasing.
Fairness ==
    /\ \A t \in Threads : SF_vars(RwLock_write_wake(t))
    /\ SF_vars(\E t \in Threads : RwLockRelease(t))

FairSpec == RwLockInit /\ [][RwLockNext]_vars /\ Fairness

\* ================================================================= claims
Decodes(v) == file.exists /\ from_reader(file.content) = [ok |-> TRUE, val |-> v]

\* what thread t holds: exclusive holds (write-capable guards and the
\* internal guard of a save in progress) and shared holds (read and
\* upgradable-read guards)
ExclusiveHolds(t) ==
    guards[t]["JsaveWriteGuard"] + guards[t]["MutexGuard"]
    + guards[t]["MappedMutexGuard"] + guards[t]["RwLockWriteGuard"]
    + guards[t]["MappedRwLockWriteGuard"]
    + (IF pc[t] \in SaveOps THEN 1 ELSE 0)

SharedHolds(t) ==
    guards[t]["JsaveReadGuard"] + guards[t]["RwLockReadGuard"]
    + guards[t]["MappedRwLockReadGuard"] + guards[t]["RwLockUpgradableReadGuard"]

RECURSIVE ExclusiveUpTo(_)
ExclusiveUpTo(n) == IF n = 0 THEN 0 ELSE ExclusiveHolds(n) + ExclusiveUpTo(n - 1)

RECURSIVE SharedUpTo(_)
SharedUpTo(n) == IF n = 0 THEN 0 ELSE SharedHolds(n) + SharedUpTo(n - 1)

NumExclusive == ExclusiveUpTo(NThreads)
NumShared == SharedUpTo(NThreads)

\* C1: on a Mutex at most one hold exists at any instant: a MutexGuard, a
\* MappedMutexGuard or the internal guard of a save in progress.
C1_MutexMutualExclusion == kind = "Mutex" => NumExclusive <= 1

\* a try_lock was refused while another thread holds the Mutex
C1_Witness ==
    /\ kind = "Mutex" /\ NumExclusive = 1
    /\ last.op = "try_lock" /\ last.res = "None"
    /\ ExclusiveHolds(last.t) = 0

\* C2: on an RwLock or a Jsave, either nobody holds exclusively, or exactly
\* one exclusive hold exists and no shared (read or upgradable-read) hold.
C2_ReaderWriterExclusion ==
    kind \in {"RwLock", "Jsave"} =>
        \/ NumExclusive = 0
        \/ NumExclusive = 1 /\ NumShared = 0

\* a reader was refused while a writer holds the RwLock
C2_Witness ==
    /\ kind = "RwLock" /\ NumExclusive = 1 /\ NumShared = 0
    /\ last.op = "try_read" /\ last.res = "None"

DroppedJsaveWriteGuard == last.op = "drop" /\ last.g = "JsaveWriteGuard"

\* C3: once a JsaveWriteGuard has been dropped with no I/O or encoding
\* failure, the backing file decodes to the in-memory value.
C3_JsaveWriteThenDurable ==
    (DroppedJsaveWriteGuard /\ last.io = "ok") => Decodes(data)

\* the guard is gone, the lock is free and the file holds {counter: 42}
C3_Witness ==
    /\ DroppedJsaveWriteGuard /\ last.io = "ok" /\ pc[last.t] = "idle"
    /\ lock = Unlocked /\ data = 42 /\ file.content = to_writer(42)

\* C4 (as claimed): once a MutexGuard or an RwLockWriteGuard has gone out of
\* scope with no I/O failure, the release has persisted the value: the
\* backing file decodes to the in-memory value.
C4_LockGuardWriteThenDurable ==
    (/\ kind \in {"Mutex", "RwLock"}
     /\ last.op = "drop" /\ last.g \in {"MutexGuard", "RwLockWriteGuard"}
     /\ last.io = "ok")
    => Decodes(data)

\* C5: right after a successful init, init_with, save or try_save, or a
\* JsaveWriteGuard drop that persisted, the file decodes to the in-memory
\* value; a save in progress holds the lock exclusively, alone; and a save
\* that got the lock and met no open failure wrote the file, changed or not.
C5_PersistencePoint ==
    /\ (last.op \in {"init", "init_with"} \cup SaveOps /\ last.res = "Ok")
           => Decodes(data)
    /\ (DroppedJsaveWriteGuard /\ last.io = "ok" /\ last.wrote) => Decodes(data)
    /\ \A t \in Threads :
         pc[t] \in SaveOps =>
             /\ lock.excl /\ lock.shared = 0 /\ ~lock.upgr
             /\ NumExclusive = 1 /\ NumShared = 0
    /\ (last.op \in SaveOps /\ last.res = "Ok") => last.wrote

\* a save succeeded on an RwLock and the lock is free again
C5_Witness ==
    /\ kind = "RwLock" /\ last.op = "save" /\ last.res = "Ok" /\ last.wrote
    /\ lock = Unlocked /\ data = 42

\* C6: when the persist inside JsaveWriteGuard's drop fails, the call still
\* ends without error or panic, the wrapper and the in-memory value are
\* untouched, the file is unchanged (open failed) or undecodable (write
\* failed), and the drop of the fields then releases the exclusive lock.
C6_DropFailureDiscarded ==
    [][\A t \in Threads :
          /\ (pc[t] = "idle" /\ pc'[t] = "drop" /\ last'.io # "ok") =>
                /\ last'.res = "unit"
                /\ kind' = kind /\ data' = data
                /\ lock' = lock /\ lock.excl
                /\ last'.io = "open_fail" => file' = file
                /\ last'.io = "write_fail" => ~from_reader(file'.content).ok
          /\ (pc[t] = "drop" /\ pc'[t] = "idle") =>
                /\ ~lock'.excl /\ guards'[t]["JsaveWriteGuard"] = 0
                /\ kind' = kind /\ data' = data /\ file' = file]_vars

\* a failed persist has been discarded: the lock is free, the value is 42 and
\* the file does not hold it
C6_Witness ==
    /\ DroppedJsaveWriteGuard /\ last.io # "ok" /\ pc[last.t] = "idle"
    /\ kind = "Jsave" /\ lock = Unlocked /\ data = 42 /\ ~Decodes(42)

ReadGuardKinds == {"JsaveReadGuard", "RwLockReadGuard",
                   "RwLockUpgradableReadGuard", "MappedRwLockReadGuard"}

\* C7: a step that releases a read or upgradable-read guard (scope exit or
\* unlock_fair) leaves the backing file exactly as it was.
C7_ReadReleaseWritesNothing ==
    [][\A t \in Threads : \A g \in ReadGuardKinds :
          (/\ guards'[t][g] < guards[t][g]
           /\ last'.op \in {"drop", "unlock_fair"} /\ last'.g = g)
          => file' = file]_vars

\* an upgradable-read guard was released while the file is stale
C7_Witness ==
    /\ last.op \in {"drop", "unlock_fair"}
    /\ last.g = "RwLockUpgradableReadGuard"
    /\ lock = Unlocked /\ file.exists /\ ~Decodes(data)

\* C8: every failure met by init or init_with (injected open/read/write
\* failure, missing file or undecodable content for init) comes back as an
\* error and leaves no wrapper; the wrapper exists exactly when the result is
\* Ok; and the save family returns an error for every failure of its write.
C8_FailuresSurface ==
    [][/\ (kind = "None" /\ last'.op \in {"init", "init_with"}) =>
            /\ (\/ last'.io # "ok"
                \/ last'.op = "init"
                     /\ (~file.exists \/ ~from_reader(file.content).ok))
               => last'.res \in {"Io", "Serde"}
            /\ last'.res \in {"Ok", "Io", "Serde"}
            /\ last'.res # "Ok" => kind' = "None" /\ lock' = Unlocked
            /\ last'.res = "Ok" => kind' = last'.g
       /\ \A t \in Threads :
            (pc[t] \in SaveOps /\ pc'[t] = "idle") =>
                /\ last'.io # "ok" => last'.res \in {"Io", "Serde"}
                /\ last'.res \in {"Ok", "Io", "Serde"}]_vars

\* init met undecodable content: an error, no wrapper, the file untouched
C8_Witness ==
    /\ last.op = "init" /\ last.g = "Jsave" /\ last.io = "ok" /\ last.res = "Serde"
    /\ kind = "None" /\ file.exists /\ ~from_reader(file.content).ok

\* C9: an init that succeeds on the file a successful init_with(v, L) left
\* yields the in-memory value v, and the file still decodes to v.
C9_RoundTrip ==
    (last.op = "init" /\ last.res = "Ok" /\ seed # NoSeed)
    => (kind # "None" /\ seed = {data} /\ Decodes(data))

\* init read back the 42 an earlier init_with had stored
C9_Witness ==
    /\ last.op = "init" /\ last.res = "Ok" /\ seed = {42}
    /\ kind = "Jsave" /\ data = 42

\* C10 (as claimed): init_with succeeds whenever the environment lets the
\* destination be created or opened for truncate-write, whether or not the
\* file existed before.
C10_InitWithNeedsNoFile ==
    (last.op = "init_with" /\ last.io = "ok") => last.res = "Ok"

RECURSIVE UpgradableUpTo(_)
UpgradableUpTo(n) ==
    IF n = 0 THEN 0
    ELSE guards[n]["RwLockUpgradableReadGuard"] + UpgradableUpTo(n - 1)

NumUpgradable == UpgradableUpTo(NThreads)

\* C11: on an RwLock at most one upgradable-read guard is live, and none next
\* to an exclusive hold (ordinary read guards may be live beside it); an
\* upgradable_read that was granted left exactly one, and a
\* try_upgradable_read came back empty only against an upgradable or an
\* exclusive holder, or behind a parked writer.
C11_UpgradableSlot ==
    kind = "RwLock" =>
        /\ NumUpgradable <= 1
        /\ lock.upgr <=> NumUpgradable = 1
        /\ NumUpgradable = 1 => NumExclusive = 0
        /\ (last.op \in {"upgradable_read", "try_upgradable_read"}
            /\ last.res \in {"guard", "Some"}) => NumUpgradable = 1
        /\ (last.op = "try_upgradable_read" /\ last.res = "None")
               => (NumUpgradable = 1 \/ NumExclusive = 1 \/ WriterParked)

\* a second upgradable read was refused while one upgradable guard and one
\* ordinary read guard are live in different threads
C11_Witness ==
    /\ kind = "RwLock" /\ NumUpgradable = 1 /\ lock.shared = 1
    /\ last.op = "try_upgradable_read" /\ last.res = "None"
    /\ \E t, u \in Threads :
         /\ t # u
         /\ guards[t]["RwLockUpgradableReadGuard"] = 1
         /\ guards[u]["RwLockReadGuard"] = 1

ConvertOps == {"upgrade", "try_upgrade", "downgrade", "downgrade_to_upgradable"}

\* C12: a completed upgrade, try_upgrade, downgrade or downgrade_to_upgradable
\* is one step of the lock: it is held before and after by the same thread,
\* in the old mode before and the new mode after, never free, and no other
\* thread's guards change in that step.
C12_ConversionAtomic ==
    [][\A t \in Threads :
          (/\ guards'[t] # guards[t]
           /\ last'.t = t /\ last'.op \in ConvertOps)
          => /\ lock # Unlocked /\ lock' # Unlocked
             /\ NumGuards(t) > 0
             /\ \A u \in Threads \ {t} : guards'[u] = guards[u]
             /\ last'.op \in {"upgrade", "try_upgrade"} =>
                   /\ lock.upgr /\ lock'.excl /\ ~lock'.upgr
                   /\ guards'[t]["RwLockWriteGuard"] = guards[t]["RwLockWriteGuard"] + 1
             /\ last'.op = "downgrade_to_upgradable" =>
                   /\ lock.excl /\ lock'.upgr /\ ~lock'.excl
                   /\ guards'[t]["RwLockUpgradableReadGuard"] = 1
             /\ last'.op = "downgrade" =>
                   /\ lock.excl \/ lock.upgr
                   /\ ~lock'.excl /\ lock'.shared = lock.shared + 1
                   /\ guards'[t]["RwLockReadGuard"]
                        = guards[t]["RwLockReadGuard"] + 1]_vars

\* a write guard was downgraded to a read guard, which its thread holds
C12_Witness ==
    /\ kind = "RwLock" /\ last.op = "downgrade" /\ last.g = "RwLockWriteGuard"
    /\ guards[last.t]["RwLockReadGuard"] = 1
    /\ lock = [Unlocked EXCEPT !.shared = 1]

\* C13: a try_upgrade that fails returns Err and changes nothing: the lock
\* word (upgradable, with the same number of ordinary readers, at least one),
\* every guard, the value and the file are as before; it succeeds only with
\* no ordinary reader left.  A thread that owns an upgradable guard always
\* finds the lock in upgradable mode.
C13_FailedUpgradeKeepsGuard ==
    [][/\ (last' # last /\ last'.op = "try_upgrade" /\ last'.res = "Err") =>
            /\ lock' = lock /\ guards' = guards
            /\ lock.upgr /\ ~lock.excl /\ lock.shared > 0
            /\ guards[last'.t]["RwLockUpgradableReadGuard"] = 1
            /\ data' = data /\ file' = file /\ kind' = kind
       /\ (last' # last /\ last'.op = "try_upgrade" /\ last'.res = "Ok") =>
            /\ lock.shared = 0 /\ lock'.excl
       /\ \A t \in Threads :
            guards'[t]["RwLockUpgradableReadGuard"] > 0 => lock'.upgr /\ ~lock'.excl]_vars

\* try_upgrade failed against one ordinary reader; the caller still owns its
\* upgradable guard
C13_Witness ==
    /\ last.op = "try_upgrade" /\ last.res = "Err"
    /\ lock = [Unlocked EXCEPT !.shared = 1, !.upgr = TRUE]
    /\ guards[last.t]["RwLockUpgradableReadGuard"] = 1

\* the levels of the reentrant mutex thread t holds: its guards and the
\* internal guard of a save in progress
ReentrantHolds(t) ==
    guards[t]["ReentrantMutexGuard"] + guards[t]["MappedReentrantMutexGuard"]
    + (IF pc[t] \in SaveOps THEN 1 ELSE 0)

RECURSIVE ReentrantUpTo(_)
ReentrantUpTo(n) == IF n = 0 THEN 0 ELSE ReentrantHolds(n) + ReentrantUpTo(n - 1)

\* C14: on a ReentrantMutex only the owner holds levels, the depth is the
\* number of its live holds and the mutex is owned exactly while the depth
\* is positive; lock / try_lock is granted exactly when the mutex is free or
\* the caller owns it (then one level deeper), and try_lock by anyone else
\* returns None and changes nothing; is_owned_by_current_thread answers true
\* exactly for the owner.
C14_ReentrantSafety ==
    [][(kind = "ReentrantMutex" /\ kind' = kind) =>
        /\ lock'.count = ReentrantUpTo(NThreads)'
        /\ \A t \in Threads : ReentrantHolds(t)' > 0 => lock'.owner = t
        /\ (lock'.owner # 0) <=> (lock'.count > 0)
        /\ lock'.excl <=> (lock'.count > 0)
        /\ (last' # last /\ last'.op \in {"lock", "try_lock"}) =>
              /\ last'.res \in {"guard", "Some"} <=> lock.owner \in {0, last'.t}
              /\ last'.res \in {"guard", "Some"} =>
                    /\ lock'.owner = last'.t /\ lock'.count = lock.count + 1
              /\ last'.res = "None" => lock' = lock /\ guards' = guards
        /\ (last' # last /\ last'.op = "is_owned_by_current_thread") =>
              (last'.res = "true"
                 <=> (lock.owner = last'.t /\ ReentrantHolds(last'.t) > 0))]_vars

\* the owner is two levels deep and another thread's try_lock was refused
C14_Witness ==
    /\ kind = "ReentrantMutex" /\ lock.count = 2
    /\ last.op = "try_lock" /\ last.res = "None"
    /\ last.t # lock.owner /\ guards[lock.owner]["ReentrantMutexGuard"] = 2

\* whether the lock of the live wrapper can be taken by t for a save
SaveLockFree(t) ==
    IF kind = "ReentrantMutex" THEN can_lock_reentrant(lock, t)
    ELSE can_lock_exclusive(lock)

\* C18: try_save (and its bounded forms) on Mutex, ReentrantMutex and RwLock
\* returns None exactly when the lock cannot be taken, and then changes
\* neither the file nor the lock nor any guard; it enters the write only
\* with the lock taken, and then returns the write's result, never None.
C18_TrySaveNone ==
    [][/\ (last' # last /\ last'.op = "try_save" /\ last'.res = "None") =>
            /\ ~SaveLockFree(last'.t)
            /\ file' = file /\ lock' = lock /\ guards' = guards
            /\ data' = data /\ kind' = kind /\ pc' = pc
       /\ (last' # last /\ last'.op = "try_save" /\ last'.res # "None") =>
            /\ pc[last'.t] = "try_save" /\ pc'[last'.t] = "idle"
       /\ \A t \in Threads :
            /\ (pc[t] = "idle" /\ pc'[t] = "try_save") =>
                  /\ SaveLockFree(t) /\ lock'.excl /\ file' = file
            /\ (pc[t] = "try_save" /\ pc'[t] = "idle") =>
                  /\ last'.op = "try_save" /\ last'.t = t
                  /\ last'.res \in {"Ok", "Io", "Serde"}
                  /\ last'.res = "Ok" => last'.wrote]_vars

\* try_save came back empty on a ReentrantMutex another thread owns, the
\* file being stale
C18_Witness ==
    /\ kind = "ReentrantMutex" /\ last.op = "try_save" /\ last.res = "None"
    /\ lock.owner \notin {0, last.t} /\ ~Decodes(data)

\* C19: a try_map whose projection answers None returns Err with a guard of
\* the kind it was given: the same thread still owns that guard, the lock
\* word and every guard are as before (so the lock was never free for
\* another thread), and the file is untouched.
C19_TryMapErrKeepsGuard ==
    [][(last' # last /\ last'.op = "try_map" /\ last'.res = "Err") =>
          /\ guards' = guards /\ lock' = lock /\ lock # Unlocked
          /\ guards[last'.t][last'.g] > 0
          /\ file' = file /\ kind' = kind /\ pc' = pc]_vars

\* try_map failed on an RwLockWriteGuard, which its thread still owns
C19_Witness ==
    /\ last.op = "try_map" /\ last.res = "Err" /\ last.g = "RwLockWriteGuard"
    /\ lock = [Unlocked EXCEPT !.excl = TRUE]
    /\ guards[last.t]["RwLockWriteGuard"] = 1

\* C20 (as claimed): no operation on a ReentrantMutexGuard or a
\* MappedReentrantMutexGuard (acquire, map, try_map, release) changes the
\* protected value.
C20_ReentrantReadOnly ==
    [][(/\ kind = "ReentrantMutex" /\ kind' = kind
        /\ last'.op \in {"lock", "try_lock", "map", "try_map", "drop", "unlock_fair"})
       => data' = data]_vars

\* C16: a try_write (try_write_for, try_write_until) that is refused changes
\* nothing: lock word, guards, value and file are as before, and the lock
\* was held; a try_write made while nobody holds the lock is granted.  So
\* after the holder's release the next try_write succeeds.
C16_FailedTryWriteNoResidue ==
    [][(kind = "RwLock" /\ last' # last /\ last'.op = "try_write") =>
          /\ last'.res = "None" =>
                /\ lock' = lock /\ guards' = guards /\ pc' = pc
                /\ file' = file /\ data' = data /\ kind' = kind
                /\ lock # Unlocked
          /\ last'.res = "Some" =>
                /\ lock = Unlocked /\ lock' = [Unlocked EXCEPT !.excl = TRUE]
                /\ guards'[last'.t]["RwLockWriteGuard"] = 1
          /\ lock = Unlocked => last'.res = "Some"]_vars

\* thread B's try_write was refused while thread A holds the write guard
C16_Witness ==
    /\ kind = "RwLock" /\ last.op = "try_write" /\ last.res = "None"
    /\ lock = [Unlocked EXCEPT !.excl = TRUE]
    /\ \E a \in Threads \ {last.t} : guards[a]["RwLockWriteGuard"] = 1

\* C17: a try_lock_for(d) / try_lock_until that found the Mutex held returns
\* None only from its wait and only once d ticks have passed since the call;
\* it returns Some only by taking the free mutex, which the caller then
\* holds; while it waits the caller holds nothing.
C17_TimeoutCorrect ==
    [][/\ (kind = "Mutex" /\ last' # last /\ last'.op = "try_lock_for") =>
            /\ last'.res = "None" =>
                  /\ pc[last'.t] = "try_lock_for"
                  /\ timer[last'.t].d >= 1
                  /\ timer[last'.t].e >= timer[last'.t].d
                  /\ lock' = lock /\ guards' = guards
            /\ last'.res = "Some" =>
                  /\ ~lock.excl /\ lock'.excl
                  /\ guards'[last'.t]["MutexGuard"] = guards[last'.t]["MutexGuard"] + 1
       /\ \A t \in Threads :
            (pc[t] = "idle" /\ pc'[t] = "try_lock_for") =>
                /\ lock.excl /\ lock' = lock /\ timer'[t].e = 0]_vars

\* try_lock_for has just timed out against a mutex that is still held
C17_Witness ==
    /\ kind = "Mutex" /\ last.op = "try_lock_for" /\ last.res = "None"
    /\ lock.excl /\ pc[last.t] = "idle"
    /\ \E a \in Threads \ {last.t} : guards[a]["MutexGuard"] = 1

\* C15: on an RwLock, under the fair scheduling above, a thread parked in
\* write() is eventually granted the exclusive lock, even though other
\* threads keep calling read() and try_read().
C15_WriterNoStarvation ==
    \A t \in Threads :
        (kind = "RwLock" /\ pc[t] = "write")
            ~> (pc[t] = "idle" /\ guards[t]["RwLockWriteGuard"] > 0)

\* a parked write() has been granted after its wait; the writer holds the
\* lock alone
C15_Witness ==
    /\ kind = "RwLock" /\ last.op = "write" /\ last.res = "guard_after_wait"
    /\ guards[last.t]["RwLockWriteGuard"] = 1
    /\ lock = [Unlocked EXCEPT !.excl = TRUE]

\* C22: into_inner consumes the wrapper and hands out the in-memory value as
\* it is, persisted or not; the backing file is left as it was.
C22_IntoInnerReturnsValue ==
    [][(last' # last /\ last'.op = "into_inner") =>
          /\ kind # "None" /\ kind' = "None"
          /\ data' = data
          /\ file' = file /\ ~last'.wrote]_vars

\* into_inner handed out 42 (stored through get_mut or a guard) while the
\* file holds another value
C22_Witness ==
    /\ last.op = "into_inner" /\ kind = "None"
    /\ data = 42 /\ file.exists /\ from_reader(file.content).ok /\ ~Decodes(42)

\* C28: init (of Jsave and of the three lock wrappers) opens the file for
\* truncating write only after the content has been read and decoded: an init
\* whose open-for-read or decode fails leaves the file exactly as it was, and
\* an init that changed or wrote the file had decoded it.
C28_InitReadsBeforeTruncate ==
    [][(last' # last /\ last'.op = "init") =>
          LET rd == ReadDecode(file, last'.io) IN
          /\ rd.res # "Ok" => /\ file' = file /\ ~last'.wrote
                              /\ last'.res = rd.res /\ kind' = "None"
          /\ (file' # file \/ last'.wrote) => /\ open_read(file, last'.io)
                                               /\ from_reader(file.content).ok]_vars

\* an init failed to decode a non-empty file, which still has its content
C28_Witness ==
    /\ last.op = "init" /\ last.res = "Serde" /\ last.io = "ok"
    /\ kind = "None" /\ file.exists /\ Len(file.content) > 0
    /\ ~from_reader(file.content).ok

MappedWriteGuards == {"MappedMutexGuard", "MappedRwLockWriteGuard"}

MappedWriteHeld(g) ==
    /\ \E t \in Threads : g[t]["MappedMutexGuard"] + g[t]["MappedRwLockWriteGuard"] > 0

\* C24: while a MappedMutexGuard or MappedRwLockWriteGuard is live the lock is
\* held exclusively by that one guard (no reader, no upgradable reader, no
\* second exclusive guard); map / try_map producing it and the step releasing
\* it leave the file as it was, and the release keeps the value and frees the
\* lock.
C24_MappedWriteGuard ==
    [][/\ MappedWriteHeld(guards) =>
             /\ lock.excl /\ lock.shared = 0 /\ ~lock.upgr
             /\ NumExclusive = 1 /\ NumShared = 0 /\ NumUpgradable = 0
       /\ MappedWriteHeld(guards') => lock'.excl /\ lock'.shared = 0 /\ ~lock'.upgr
       /\ \A t \in Threads : \A g \in MappedWriteGuards :
             /\ guards'[t][g] > guards[t][g] =>
                   /\ last'.op \in {"map", "try_map"}
                   /\ file' = file /\ lock' = lock /\ lock.excl
             /\ guards'[t][g] < guards[t][g] =>
                   /\ last'.op \in {"drop", "unlock_fair"} /\ last'.g = g
                   /\ file' = file /\ data' = data /\ ~last'.wrote
                   /\ lock' = Unlocked]_vars

\* a mapped write guard of an RwLock was released, the lock is free, and the
\* value 42 stored under the lock is not what the file holds
C24_Witness ==
    /\ kind = "RwLock" /\ last.op = "drop" /\ last.g = "MappedRwLockWriteGuard"
    /\ lock = Unlocked /\ data = 42 /\ file.exists /\ ~Decodes(42)

\* C25: RwLockWriteGuard::downgrade and downgrade_to_upgradable change the
\* lock mode only: the file, the value and the write flag of the step are
\* untouched; and the release of a read or upgradable guard that brings the
\* lock back to Unlocked leaves file and value as they were, a stale file
\* stale.
C25_DowngradeWritesNothing ==
    [][/\ (last' # last /\ last'.g = "RwLockWriteGuard"
           /\ last'.op \in {"downgrade", "downgrade_to_upgradable"}) =>
             /\ file' = file /\ data' = data /\ ~last'.wrote
       /\ (last' # last /\ last'.op \in {"drop", "unlock_fair"}
           /\ last'.g \in {"RwLockReadGuard", "RwLockUpgradableReadGuard"}
           /\ lock' = Unlocked) =>
             /\ file' = file /\ data' = data /\ ~last'.wrote]_vars

\* a write guard was downgraded to an upgradable guard while the value 42 it
\* protects is not what the file holds
C25_Witness ==
    /\ last.op = "downgrade_to_upgradable" /\ last.g = "RwLockWriteGuard"
    /\ lock.upgr /\ ~lock.excl
    /\ data = 42 /\ file.exists /\ ~Decodes(42)

Persisting(p, t) == p[t] \in {"drop"} \cup SaveOps

\* C23: a persist of a live wrapper (the body of JsaveWriteGuard's Drop, the
\* write of a save) runs with the lock held exclusively by the persisting
\* thread and the lock is given back only in a later step (drop) or as the
\* call ends (save): from the write until that release no other thread gets
\* a guard or enters a persist of its own, at most one thread is persisting
\* at any time, and every step that writes the file of a live wrapper is made
\* by that one thread.
C23_PersistUnderLock ==
    [][\A t \in Threads :
          /\ (pc[t] = "idle" /\ pc'[t] = "drop") =>
                /\ lock.excl /\ lock' = lock /\ guards' = guards
                /\ guards[t]["JsaveWriteGuard"] = 1
          /\ (pc[t] = "drop" /\ pc'[t] = "idle") =>
                /\ lock.excl /\ lock' = Unlocked /\ file' = file
                /\ guards'[t]["JsaveWriteGuard"] = 0
          /\ Persisting(pc', t) =>
                /\ lock'.excl /\ lock'.shared = 0 /\ ~lock'.upgr
                /\ \A u \in Threads \ {t} :
                      /\ ~Persisting(pc', u)
                      /\ guards'[u] = NoGuards
          /\ (Persisting(pc, t) /\ Persisting(pc', t)) =>
                /\ file' = file /\ lock' = lock /\ guards' = guards
          /\ (kind' = kind /\ kind # "None" /\ last' # last /\ last'.t = t
              /\ (file' # file \/ last'.wrote)) =>
                /\ lock.excl
                /\ Persisting(pc, t) \/ Persisting(pc', t)
                /\ \A u \in Threads \ {t} : ~Persisting(pc, u) /\ pc'[u] = pc[u]]_vars

\* the body of a JsaveWriteGuard's Drop has written 42 to the file and the
\* lock is still held by the guard being dropped
C23_Witness ==
    /\ kind = "Jsave" /\ \E t \in Threads :
          /\ pc[t] = "drop" /\ guards[t]["JsaveWriteGuard"] = 1
    /\ lock.excl /\ last.wrote /\ data = 42 /\ Decodes(42)

\* C26: a save, try_save (or bounded form) that took the lock gives it back
\* as it returns, whatever the write's result; so whenever a wrapper has no
\* live guard and no thread is inside a call, the lock is Unlocked
\* (is_locked() is false), and a try_lock / try_write made then is granted.
C26_NoLeakedLock ==
    [][/\ \A t \in Threads :
            (pc[t] \in SaveOps /\ pc'[t] = "idle") =>
               /\ last'.op = pc[t] /\ last'.res \in {"Ok", "Io", "Serde"}
               /\ is_locked
               /\ IF kind = "ReentrantMutex"
                  THEN lock'.count = lock.count - 1
                  ELSE lock' = Unlocked
       /\ (kind # "None" /\ Quiescent) => ~is_locked /\ lock = Unlocked
       /\ (kind' # "None" /\ Quiescent') => ~is_locked' /\ lock' = Unlocked
       /\ (Quiescent /\ last' # last /\ last'.op \in {"try_lock", "try_write"}) =>
               /\ last'.res = "Some"
               /\ is_locked' /\ lock'.excl]_vars

\* a save on an RwLock failed in its write and came back: nothing is live
\* and the lock is free
C26_Witness ==
    /\ kind = "RwLock" /\ last.op = "save" /\ last.res = "Serde"
    /\ Quiescent /\ ~is_locked /\ lock = Unlocked

\* ------------------------------------------------- saving a contended lock
\* A Mutex or an RwLock, just returned by init_with(v, L), lives on.  The
\* threads take and release guards, store through them, and call save and
\* try_save; a blocking save that finds the lock taken parks.
SaveInit ==
    /\ kind \in {"Mutex", "RwLock"}
    /\ data \in Values
    /\ pretty \in BOOLEAN
    /\ file = [exists |-> TRUE, content |-> Encode(data, pretty)]
    /\ lock = Unlocked
    /\ guards = [t \in Threads |-> NoGuards]
    /\ pc = [t \in Threads |-> "idle"]
    /\ last = [op |-> "init_with", g |-> kind, t |-> 0, io |-> "ok",
               res |-> "Ok", wrote |-> TRUE]
    /\ seed = {data}
    /\ timer = [t \in Threads |-> NoTimer]

SaveNext ==
    \E t \in Threads :
        \/ deref_mut(t)
        \/ Mutex_lock(t) \/ Mutex_try_lock(t)
        \/ MutexGuard_drop(t) \/ MutexGuard_map(t) \/ MappedMutexGuard_drop(t)
        \/ Mutex_save(t) \/ Mutex_try_save_none(t) \/ Mutex_save_write(t)
        \/ Mutex_save_wait(t) \/ Mutex_save_wake(t)
        \/ RwLock_read(t) \/ RwLock_write(t) \/ RwLock_upgradable_read(t)
        \/ RwLockReadGuard_drop(t) \/ RwLockWriteGuard_drop(t)
        \/ RwLockUpgradableReadGuard_drop(t)
        \/ RwLock_save(t) \/ RwLock_try_save_none(t) \/ RwLock_save_write(t)
        \/ RwLock_save_wait(t) \/ RwLock_save_wake(t)

SaveSpec == SaveInit /\ [][SaveNext]_vars

\* C27: a thread that calls the blocking save of a Mutex while holding a
\* MutexGuard or a mapped guard of it, or of an RwLock while holding any
\* read, upgradable or write guard of it, parks and stays parked with its
\* guards ever after: the call never returns.  A save gets the lock only in
\* the hands of a thread holding no guard, and try_save called by a thread
\* that holds a guard comes back with None, leaving everything as it was.
C27_SaveSelfDeadlock ==
    [][\A t \in Threads :
          /\ (pc[t] = "save_wait" /\ NumGuards(t) > 0) =>
                /\ pc'[t] = "save_wait" /\ guards'[t] = guards[t]
                /\ is_locked'
                /\ ~(last' # last /\ last'.t = t)
          /\ (pc[t] = "idle" /\ NumGuards(t) > 0 /\ pc'[t] # "idle") =>
                pc'[t] = "save_wait"
          /\ (pc[t] \notin SaveOps /\ pc'[t] \in SaveOps) => NumGuards(t) = 0
          /\ (pc[t] = "idle" /\ NumGuards(t) > 0
              /\ last' # last /\ last'.t = t /\ last'.op = "try_save") =>
                /\ last'.res = "None"
                /\ pc' = pc /\ lock' = lock /\ guards' = guards /\ file' = file]_vars

\* a thread holding a read guard of an RwLock is parked in save, and its
\* own share keeps the lock from it
C27_Witness ==
    /\ kind = "RwLock" /\ lock.shared = 1 /\ ~lock.excl /\ ~lock.upgr
    /\ \E t \in Threads :
          /\ pc[t] = "save_wait" /\ guards[t]["RwLockReadGuard"] = 1
          /\ \A u \in Threads \ {t} : guards[u] = NoGuards

\* ------------------------------- guards lent to unlocked, and force-unlocked
\* A Mutex, a ReentrantMutex or an RwLock, just returned by init_with(v, L),
\* lives on (in the compact build).  The threads take and release guards,
\* store through the write-capable ones, call unlocked / unlocked_fair on
\* them, and forget them and force-unlock.
GuardInit ==
    /\ kind \in {"Mutex", "ReentrantMutex", "RwLock"}
    /\ data \in Values
    /\ pretty = FALSE
    /\ file = [exists |-> TRUE, content |-> Encode(data, pretty)]
    /\ lock = Unlocked
    /\ guards = [t \in Threads |-> NoGuards]
    /\ pc = [t \in Threads |-> "idle"]
    /\ last = [op |-> "init_with", g |-> kind, t |-> 0, io |-> "ok",
               res |-> "Ok", wrote |-> TRUE]
    /\ seed = {data}
    /\ timer = [t \in Threads |-> NoTimer]

GuardNext ==
    \E t \in Threads :
        \/ deref_mut(t)
        \/ Mutex_lock(t) \/ Mutex_try_lock(t) \/ MutexGuard_drop(t)
        \/ Mutex_force_unlock(t) \/ ReentrantMutex_force_unlock(t)
        \/ RwLock_force_unlock_read(t) \/ RwLock_force_unlock_write_and_save(t)
        \/ MutexGuard_unlocked(t) \/ MutexGuard_unlocked_return(t)
        \/ ReentrantMutex_lock(t) \/ ReentrantMutex_try_lock(t)
        \/ ReentrantMutexGuard_drop(t)
        \/ ReentrantMutexGuard_unlocked(t) \/ ReentrantMutexGuard_unlocked_return(t)
        \/ RwLock_read(t) \/ RwLock_write(t)
        \/ RwLock_upgradable_read(t)
        \/ RwLockReadGuard_drop(t) \/ RwLockWriteGuard_drop(t)
        \/ RwLockUpgradableReadGuard_drop(t)
        \/ RwLockReadGuard_unlocked(t) \/ RwLockReadGuard_unlocked_return(t)
        \/ RwLockWriteGuard_unlocked(t) \/ RwLockWriteGuard_unlocked_return(t)
        \/ RwLockUpgradableReadGuard_unlocked(t)
        \/ RwLockUpgradableReadGuard_unlocked_return(t)

GuardSpec == GuardInit /\ [][GuardNext]_vars

ForceUnlockOps == {"force_unlock", "force_unlock_fair",
                   "force_unlock_read", "force_unlock_read_fair",
                   "force_unlock_write_and_save", "force_unlock_write_and_save_fair"}

\* C21: a force-unlock of a Mutex, a ReentrantMutex or an RwLock (read or
\* write_and_save form, fair or not) gives back one hold of the raw lock and
\* leaves the backing file, the value and the wrapper exactly as they were.
C21_ForceUnlockWritesNothing ==
    [][(last' # last /\ last'.op \in ForceUnlockOps) =>
          /\ file' = file /\ data' = data /\ kind' = kind /\ ~last'.wrote
          /\ lock # Unlocked /\ lock' # lock]_vars

\* force_unlock_write_and_save released the write lock of an RwLock whose
\* value 42 the file does not hold
C21_Witness ==
    /\ kind = "RwLock" /\ last.op = "force_unlock_write_and_save"
    /\ lock = Unlocked /\ data = 42 /\ file.exists /\ ~Decodes(42)

\* the raw lock word is what the guards in use account for
LockMatchesGuards ==
    /\ NumExclusive <= 1
    /\ NumExclusive = 1 => NumShared = 0
    /\ NumUpgradable <= 1
    /\ kind \in {"Mutex", "RwLock"} =>
          /\ lock.excl <=> NumExclusive = 1
          /\ lock.upgr <=> NumUpgradable = 1
          /\ lock.shared = NumShared - NumUpgradable
    /\ kind = "ReentrantMutex" =>
          /\ lock.count = ReentrantUpTo(NThreads)
          /\ lock.excl <=> lock.count > 0
          /\ \A t \in Threads : ReentrantHolds(t) > 0 => lock.owner = t

\* C29: unlocked / unlocked_fair on a MutexGuard, ReentrantMutexGuard,
\* RwLockReadGuard, RwLockWriteGuard or RwLockUpgradableReadGuard gives the
\* lock back in the guard's mode as f starts and takes it again in the same
\* mode as the call returns, so the caller then holds the guard as before;
\* neither step touches the file or the value; and all along, f running or
\* not, the lock word is exactly what the guards in use account for (one
\* exclusive holder at most, never beside a reader).
C29_UnlockedReleasesAndRelocks ==
    [][/\ LockMatchesGuards /\ LockMatchesGuards'
       /\ \A t \in Threads : \A g \in UnlockedGuards :
            /\ (pc[t] = "idle" /\ pc'[t] = InUnlocked(g)) =>
                  /\ guards[t][g] > 0
                  /\ guards'[t][g] = guards[t][g] - 1
                  /\ lock' = unlock_for(g, lock) /\ lock' # lock
                  /\ g \in ExclusiveGuards => lock' = Unlocked
                  /\ file' = file /\ data' = data /\ last' = last
            /\ (pc[t] = InUnlocked(g) /\ pc'[t] # pc[t]) =>
                  /\ pc'[t] = "idle"
                  /\ last'.op \in {"unlocked", "unlocked_fair"}
                  /\ last'.g = g /\ last'.t = t
                  /\ guards'[t][g] = guards[t][g] + 1
                  /\ lock' = relock(g, lock, t) /\ lock' # lock
                  /\ g \in ExclusiveGuards =>
                        lock = Unlocked /\ lock' = [Unlocked EXCEPT !.excl = TRUE]
                  /\ g \in ReentrantGuards => lock'.owner = t
                  /\ file' = file /\ data' = data /\ ~last'.wrote
            /\ (pc[t] = InUnlocked(g) /\ pc'[t] = pc[t]) =>
                  guards'[t] = guards[t]]_vars

\* while one thread's MutexGuard is lent to unlocked, f still running, the
\* other thread has taken the mutex and stored 42 through its own guard;
\* the file still holds the old value
C29_Witness ==
    /\ kind = "Mutex" /\ last.op = "deref_mut" /\ data = 42 /\ ~Decodes(42)
    /\ \E t \in Threads :
          /\ pc[t] = InUnlocked("MutexGuard") /\ guards[t] = NoGuards
          /\ last.t # t /\ guards[last.t]["MutexGuard"] = 1
    /\ lock = [Unlocked EXCEPT !.excl = TRUE]

====
